---- MODULE Spec2Model ----
(***************************************************************************)
(* Model of the Nebula agent engine: the ReAct ("NFC") graph of            *)
(* app/engine/nfc_graph.py, the tool executor of                           *)
(* app/engine/tool_executor.py, the permission filter of                   *)
(* app/core/permissions.py and the SSE fan-out of                          *)
(* app/api/routes/chat.py (nfc_stream_generator).                          *)
(***************************************************************************)
EXTENDS Integers, Sequences, FiniteSets, TLC

\* ---------------------------------------------------------------- bounds
\* Largest iteration cap (max_iterations) a turn is started with.
MaxCap == 2
\* Largest number of tool calls the provider issues during one turn (the ids
\* "call-1" .. "call-MaxCalls").
MaxCalls == 2
\* Largest number of nodes of a skill workflow (the ids "s1" .. "sMaxTasks").
MaxTasks == 3
\* Calls of ToolExecutor.execute one turn makes
MaxExecCalls == 2
\* Longest provider stream (chunks) of one captured completion
MaxChunks == 3
\* Gateway calls made through one LLMGateway
MaxGatewayCalls == 2
\* Tool results of one iteration
MaxResults == 2
\* Calls made on one SSEStreamHandler
MaxSseCalls == 4
\* Calls of add_message on one ConversationMemory
MaxAdds == 4
\* Largest max_messages of a ConversationMemory
MaxWindow == 2

\* ------------------------------------------------------- python helpers
\* Python's None.  Optional strings are either None or the string itself.
None == "None"

\* bool(x) of an optional string: None and "" are falsy.
Truthy(x) == x # None /\ x # ""

Last(s) == s[Len(s)]

\* The concatenation of a sequence of sequences
RECURSIVE Flatten(_)
Flatten(ss) == IF ss = <<>> THEN <<>> ELSE Head(ss) \o Flatten(Tail(ss))

\* ------------------------------------------------- catalog and callers
\* Tool rows of the catalog (app/models/tool.py): one public tool, one
\* internal tool restricted to the role admin, and one row that is no
\* longer active.
ToolNames == {"calculator", "priv_tool"}

Catalog ==
    [calculator |->
        [name |-> "calculator", status |-> "active", tool_type |-> "builtin",
         visibility |-> "public", allowed_departments |-> {},
         allowed_roles |-> {}, created_by |-> "u_admin"],
     priv_tool |->
        [name |-> "priv_tool", status |-> "active", tool_type |-> "external_api",
         visibility |-> "internal", allowed_departments |-> {},
         allowed_roles |-> {"admin"}, created_by |-> "u_admin"],
     old_tool |->
        [name |-> "old_tool", status |-> "deprecated", tool_type |-> "data_api",
         visibility |-> "public", allowed_departments |-> {},
         allowed_roles |-> {}, created_by |-> "u_admin"]]

\* select(Tool).where(Tool.status == "active") in catalog order
CatalogOrder == <<"calculator", "priv_tool">>

\* Callers of the chat endpoint (always authenticated: CurrentUser).
Users ==
    {[id |-> "u_viewer", is_superuser |-> FALSE, department |-> None,
      roles |-> {"viewer"}],
     [id |-> "u_admin", is_superuser |-> FALSE, department |-> None,
      roles |-> {"admin"}]}

\* user = None of the permission checks: the anonymous caller
AnonymousUser ==
    [id |-> None, is_superuser |-> FALSE, department |-> None, roles |-> {}]

\* check_tool_permission as it would be with the superuser rule placed after
\* the visibility rules
check_tool_permission_superuser_last(user, tool) ==
    IF tool.visibility = "public" THEN TRUE
    ELSE IF user = AnonymousUser THEN FALSE
    ELSE IF tool.visibility = "private" THEN tool.created_by = user.id
    ELSE IF tool.visibility = "internal"
         THEN \/ /\ tool.allowed_departments # {}
                 /\ Truthy(user.department)
                 /\ user.department \in tool.allowed_departments
              \/ /\ tool.allowed_roles # {}
                 /\ (user.roles \cap tool.allowed_roles) # {}
    ELSE user.is_superuser

\* check_tool_permission as it would be if it also turned away users whose
\* account is not active
check_tool_permission_active_only(user, tool) ==
    IF tool.visibility = "public" THEN TRUE
    ELSE IF user = AnonymousUser THEN FALSE
    ELSE IF ~user.is_active THEN FALSE
    ELSE check_tool_permission_superuser_last(user, tool) \/ user.is_superuser

\* check_tool_permission(user, tool)
check_tool_permission(user, tool) ==
    IF tool.visibility = "public" THEN TRUE
    ELSE IF user = AnonymousUser THEN FALSE
    ELSE IF user.is_superuser THEN TRUE
    ELSE IF tool.visibility = "private" THEN tool.created_by = user.id
    ELSE IF tool.visibility = "internal"
         THEN \/ /\ tool.allowed_departments # {}
                 /\ Truthy(user.department)
                 /\ user.department \in tool.allowed_departments
              \/ /\ tool.allowed_roles # {}
                 /\ (user.roles \cap tool.allowed_roles) # {}
    ELSE FALSE

\* check_skill_permission(user, skill)
check_skill_permission(user, skill) ==
    IF skill.visibility = "public" THEN TRUE
    ELSE IF user = AnonymousUser THEN FALSE
    ELSE IF user.is_superuser THEN TRUE
    ELSE IF skill.visibility = "private" THEN skill.created_by = user.id
    ELSE IF skill.visibility = "internal"
         THEN \/ /\ skill.allowed_departments # {}
                 /\ Truthy(user.department)
                 /\ user.department \in skill.allowed_departments
              \/ /\ skill.allowed_roles # {}
                 /\ (user.roles \cap skill.allowed_roles) # {}
    ELSE FALSE

\* filter_tools_by_permission(user, tools), as the list of tool names
filter_tools_by_permission(user, names) ==
    SelectSeq(names, LAMBDA n : check_tool_permission(user, Catalog[n]))

\* --------------------------------------------------------- tool executor
\* str(ToolExecutionError(tool_name, message))
ToolExecutionError(tool_name, message) ==
    "Tool '" \o tool_name \o "' execution failed: " \o message

\* A python value returned by a tool: isdict is isinstance(v, dict), text is
\* str(v) (v itself for a string), json is json.dumps(v), keys are a dict's
\* top-level keys and sensitive names the sensitive-data pattern a string
\* leaf matches ("none", "card", "id" or "email").
\* The value ToolExecutor._execute_generic returns:
GenericResult(tool_name) ==
    [isdict |-> TRUE,
     text |-> "{'tool': '" \o tool_name \o "', 'status': 'executed'}",
     json |-> "{\"tool\": \"" \o tool_name \o "\", \"status\": \"executed\"}",
     keys |-> {"tool", "status", "input", "message"}, sensitive |-> "none"]

\* ToolExecutor(session): a fresh executor has no built-ins and no cache.
\* session is None or the handle "db" of the request's database session.
get_tool_executor(session) ==
    [session |-> session, builtin_tools |-> {}, tool_cache |-> {}]

\* ToolExecutor._get_tool(name): the sequence is empty for None
ToolExecutor_get_tool(executor, name) ==
    IF name \in executor.tool_cache THEN <<Catalog[name]>>
    ELSE IF executor.session = None THEN <<>>
    ELSE IF name \in DOMAIN Catalog /\ Catalog[name].status = "active"
         THEN <<Catalog[name]>>
    ELSE <<>>

\* ToolExecutor.execute(tool_name, arguments).  handler is what the invoked
\* built-in handler or adapter does: [ok |-> TRUE, value |-> v] when it
\* returns v, [ok |-> FALSE, error |-> m] when it raises.  The result is
\* [ok |-> TRUE, value |-> v] or [ok |-> FALSE, error |-> str(exception)].
ToolExecutor_execute(executor, tool_name, arguments, handler) ==
    IF tool_name \in executor.builtin_tools
    THEN IF handler.ok
         THEN [ok |-> TRUE, value |-> handler.value, error |-> None]
         ELSE [ok |-> FALSE, value |-> None,
               error |-> ToolExecutionError(tool_name, handler.error)]
    ELSE LET tool == ToolExecutor_get_tool(executor, tool_name) IN
         IF tool = <<>>
         THEN [ok |-> FALSE, value |-> None,
               error |-> ToolExecutionError(tool_name, "Tool not found")]
         ELSE IF tool[1].tool_type \in {"ml_model", "data_api", "external_api"}
         THEN IF handler.ok
              THEN [ok |-> TRUE, value |-> handler.value, error |-> None]
              ELSE [ok |-> FALSE, value |-> None,
                    error |-> ToolExecutionError(tool_name, handler.error)]
         ELSE [ok |-> TRUE, value |-> GenericResult(tool_name), error |-> None]

\* execute_tool(tool_name, arguments, session_id, user_id, session=None)
execute_tool(tool_name, arguments, session, handler) ==
    ToolExecutor_execute(get_tool_executor(session), tool_name, arguments, handler)

\* ------------------------------------------------------ provider stream
\* JSON texts the provider sends as tool-call arguments; json.loads succeeds
\* on the first only.
ValidJson == {"{}"}

\* json.loads(args_str) with the JSONDecodeError fallback of
\* OpenAIAdapter._parse_tool_calls
ParseArguments(args_str) ==
    IF args_str \in ValidJson
    THEN [kind |-> "object", text |-> args_str]
    ELSE [kind |-> "raw", text |-> args_str]

\* StreamChunk(content, reasoning_content, finish_reason, tool_call_chunk)
StreamChunk(content, reasoning, deltas, finish) ==
    [type |-> "chunk", content |-> content, reasoning_content |-> reasoning,
     tool_call_chunk |-> deltas, finish_reason |-> finish]

\* One streamed tool-call delta: {"index", "id", "function": {"name", "arguments"}}
ToolCallDelta(index, id, name, arguments) ==
    [index |-> index, id |-> id, name |-> name, arguments |-> arguments]

\* The chunks OpenAIAdapter.chat_stream yields for one completion: an optional
\* reasoning delta, an optional content delta, one tool-call delta per call,
\* the chunk carrying finish_reason and the chunk for the [DONE] line.
ProviderStream(reasoning, content, calls) ==
    (IF Truthy(reasoning) THEN <<StreamChunk(None, reasoning, <<>>, None)>> ELSE <<>>)
    \o (IF Truthy(content) THEN <<StreamChunk(content, None, <<>>, None)>> ELSE <<>>)
    \o [i \in 1..Len(calls) |->
          StreamChunk(None, None,
                      <<ToolCallDelta(i - 1, calls[i].id, calls[i].name, "{}")>>, None)]
    \o <<StreamChunk(None, None, <<>>, IF calls = <<>> THEN "stop" ELSE "tool_calls")>>
    \o <<StreamChunk(None, None, <<>>, None)>>

\* Concatenation of the truthy values of one chunk field (full_content,
\* full_reasoning in OpenAIAdapter.chat)
RECURSIVE ConcatField(_, _)
ConcatField(chunks, field) ==
    IF chunks = <<>> THEN ""
    ELSE (IF Truthy(Head(chunks)[field]) THEN Head(chunks)[field] ELSE "")
         \o ConcatField(Tail(chunks), field)

\* The last truthy finish_reason of the chunks
RECURSIVE LastFinish(_)
LastFinish(chunks) ==
    IF chunks = <<>> THEN None
    ELSE IF Truthy(Last(chunks).finish_reason) THEN Last(chunks).finish_reason
    ELSE LastFinish(SubSeq(chunks, 1, Len(chunks) - 1))

\* tool_calls_dict of OpenAIAdapter.chat after the deltas: index -> call
RECURSIVE MergeDeltas(_, _)
MergeDeltas(dict, deltas) ==
    IF deltas = <<>> THEN dict
    ELSE LET tc == Head(deltas)
             idx == tc.index
             merged ==
                 IF idx \notin DOMAIN dict THEN tc
                 ELSE [dict[idx] EXCEPT
                         !.name = IF tc.name # None
                                  THEN (IF @ = None THEN "" ELSE @) \o tc.name ELSE @,
                         !.arguments = IF tc.arguments # None
                                       THEN (IF @ = None THEN "" ELSE @) \o tc.arguments
                                       ELSE @]
         IN MergeDeltas([i \in DOMAIN dict \cup {idx} |->
                            IF i = idx THEN merged ELSE dict[i]],
                        Tail(deltas))

\* [tool_calls_dict[k] for k in sorted(tool_calls_dict.keys())]
RECURSIVE SortedValues(_)
SortedValues(dict) ==
    IF DOMAIN dict = {} THEN <<>>
    ELSE LET k == CHOOSE m \in DOMAIN dict : \A j \in DOMAIN dict : m <= j
         IN <<dict[k]>> \o SortedValues([j \in DOMAIN dict \ {k} |-> dict[j]])

\* OpenAIAdapter._parse_tool_calls
parse_tool_calls(tool_calls_data) ==
    [i \in 1..Len(tool_calls_data) |->
        [id |-> tool_calls_data[i].id,
         name |-> IF tool_calls_data[i].name = None THEN "" ELSE tool_calls_data[i].name,
         arguments |-> ParseArguments(IF tool_calls_data[i].arguments = None
                                      THEN "{}" ELSE tool_calls_data[i].arguments)]]

\* The LLMResponse OpenAIAdapter.chat composes in stream-capture mode
OpenAIAdapter_chat(chunks) ==
    LET full_content == ConcatField(chunks, "content")
        full_reasoning == ConcatField(chunks, "reasoning_content")
        emptyDict == [i \in {} |-> None]
        tool_calls_dict ==
            MergeDeltas(emptyDict,
                        Flatten([i \in 1..Len(chunks) |-> chunks[i].tool_call_chunk]))
    IN [content |-> IF full_content # "" THEN full_content ELSE None,
        reasoning_content |-> IF full_reasoning # "" THEN full_reasoning ELSE None,
        tool_calls |-> parse_tool_calls(SortedValues(tool_calls_dict)),
        finish_reason |-> LastFinish(chunks)]

\* The content blocks of one Anthropic message: an optional text block and
\* one tool_use block per call, whose input is already a JSON object
AnthropicBlocks(content, calls) ==
    (IF Truthy(content) THEN <<[type |-> "text", text |-> content]>> ELSE <<>>)
    \o [i \in 1..Len(calls) |->
          [type |-> "tool_use", id |-> calls[i].id, name |-> calls[i].name,
           input |-> [kind |-> "object", text |-> "{}"]]]

\* AnthropicAdapter._parse_response: the text of the last text block and one
\* ToolCall per tool_use block
RECURSIVE AnthropicAdapter_parse_response(_)
AnthropicAdapter_parse_response(content_blocks) ==
    IF content_blocks = <<>>
    THEN [content |-> None, reasoning_content |-> None, tool_calls |-> <<>>,
          finish_reason |-> "end_turn"]
    ELSE LET rest == AnthropicAdapter_parse_response(
                         SubSeq(content_blocks, 1, Len(content_blocks) - 1))
             block == Last(content_blocks)
         IN IF block.type = "text"
            THEN [rest EXCEPT !.content = block.text]
            ELSE [rest EXCEPT
                    !.tool_calls = Append(@, [id |-> block.id, name |-> block.name,
                                              arguments |-> block.input]),
                    !.finish_reason = "tool_use"]

\* AnthropicAdapter.chat: one POST, the parsed response; nothing is put on
\* the stream queue
AnthropicAdapter_chat(content_blocks) ==
    AnthropicAdapter_parse_response(content_blocks)

\* to_message as it would be if to_dict left the tool calls out
to_message_without_tool_calls(response) ==
    [role |-> "assistant", content |-> response.content,
     tool_calls |-> <<>>, tool_call_id |-> None, name |-> None]

\* LLMResponse.to_message().to_dict(): absent keys are None / <<>>
to_message(response) ==
    [role |-> "assistant", content |-> response.content,
     tool_calls |-> response.tool_calls, tool_call_id |-> None, name |-> None]

\* -------------------------------------------------------- NFC agent state
\* initial_state of stream_nfc_agent; keys a node may set later start as None
InitialState(input_text, user_id, tools, max_iterations) ==
    [input |-> input_text, session_id |-> "default", user_id |-> user_id,
     available_tools |-> tools, messages |-> <<>>, pending_tool_calls |-> <<>>,
     tool_results |-> <<>>, final_response |-> None, reasoning_content |-> None,
     iteration |-> 0, max_iterations |-> max_iterations, status |-> "thinking",
     error |-> None, planning_data |-> <<>>, validation_status |-> None,
     validation_issues |-> <<>>]

\* add_messages reducer: the messages carry no id, so each one is appended
add_messages(left, right) == left \o right

\* LangGraph's application of a node's partial update to the state
ApplyUpdate(s, update) ==
    [k \in DOMAIN s |->
        IF k \in DOMAIN update
        THEN IF k = "messages" THEN add_messages(s.messages, update.messages)
             ELSE update[k]
        ELSE s[k]]

\* plan_node: decision is the planner's outcome ([ok, reasoning, steps, error])
plan_node(s, decision) ==
    IF decision.ok
    THEN [planning_data |-> <<[reasoning |-> decision.reasoning,
                               steps |-> decision.steps, error |-> None]>>,
          status |-> "thinking"]
    ELSE [planning_data |-> <<[reasoning |-> "", steps |-> <<>>,
                               error |-> decision.error]>>]

\* The message list think_node sends to the provider
llm_messages(s) ==
    s.messages \o
    (IF s.iteration = 0
     THEN <<[role |-> "user", content |-> s.input, tool_calls |-> <<>>,
             tool_call_id |-> None, name |-> None]>>
     ELSE <<>>)

\* think_node, given the gateway's response
think_node(s, response) ==
    IF response.tool_calls # <<>>
    THEN [pending_tool_calls |-> response.tool_calls,
          messages |-> <<to_message(response)>>,
          status |-> "tool_calling",
          iteration |-> s.iteration + 1,
          reasoning_content |-> response.reasoning_content]
    ELSE [final_response |-> response.content,
          messages |-> <<to_message(response)>>,
          status |-> "done",
          pending_tool_calls |-> <<>>,
          reasoning_content |-> response.reasoning_content]

\* The entry execute_tools_node appends to results for one call; outcome is
\* what execute_tool returned or raised
ToolResultEntry(tool_call, outcome) ==
    IF outcome.ok
    THEN [tool_call_id |-> tool_call.id, tool_name |-> tool_call.name,
          result |-> outcome.value, error |-> None, success |-> TRUE]
    ELSE [tool_call_id |-> tool_call.id, tool_name |-> tool_call.name,
          result |-> None, error |-> outcome.error, success |-> FALSE]

\* The tool-role message execute_tools_node appends to result_messages
ToolResultMessage(tool_call, outcome) ==
    [role |-> "tool",
     content |-> IF outcome.ok THEN outcome.value.text
                 ELSE "Error: " \o outcome.error,
     tool_calls |-> <<>>,
     tool_call_id |-> tool_call.id,
     name |-> tool_call.name]

\* execute_tools_node as it would be if each result message were inserted at
\* the front of result_messages
execute_tools_node_reversed(s, handlers) ==
    LET pending_calls == s.pending_tool_calls
        n == Len(pending_calls)
        outcome(i) == execute_tool(pending_calls[i].name, pending_calls[i].arguments,
                                   None, handlers[i])
    IN [tool_results |-> [i \in 1..n |-> ToolResultEntry(pending_calls[i], outcome(i))],
        messages |-> [i \in 1..n |->
                        ToolResultMessage(pending_calls[n + 1 - i], outcome(n + 1 - i))],
        pending_tool_calls |-> <<>>, status |-> "validating"]

\* execute_tools_node.  handlers[i] is what the implementation of the i-th
\* call would do if it were invoked.
execute_tools_node(s, handlers) ==
    LET pending_calls == s.pending_tool_calls
        n == Len(pending_calls)
        outcome(i) == execute_tool(pending_calls[i].name, pending_calls[i].arguments,
                                   None, handlers[i])
    IN [tool_results |-> [i \in 1..n |-> ToolResultEntry(pending_calls[i], outcome(i))],
        messages |-> [i \in 1..n |-> ToolResultMessage(pending_calls[i], outcome(i))],
        pending_tool_calls |-> <<>>, status |-> "validating"]

\* ------------------------------------------------------------- validator
\* ResultValidator.validate: one high issue per missing required field
RequiredFields == <<"output", "agent">>

ResultValidator_validate(data) ==
    IF ~data.isdict
    THEN <<[code |-> "INVALID_TYPE", level |-> "critical"]>>
    ELSE [i \in 1..Len(SelectSeq(RequiredFields, LAMBDA f : f \notin data.keys)) |->
            [code |-> "MISSING_FIELD", level |-> "high"]]

\* ComplianceChecker.validate: a high issue for a sensitive string leaf
ComplianceChecker_validate(data) ==
    IF data.sensitive # "none"
    THEN <<[code |-> "SENSITIVE_DATA", level |-> "high"]>>
    ELSE <<>>

\* is_valid as it would be if only critical issues made a result invalid
is_valid_critical_only(issues) ==
    ~ \E i \in 1..Len(issues) : issues[i].level = "critical"

\* ValidationResult.is_valid
is_valid(issues) ==
    ~ \E i \in 1..Len(issues) : issues[i].level \in {"critical", "high"}

\* OutputSanitizer.sanitize: card and identity numbers are masked
sanitize(data) ==
    IF data.sensitive \in {"card", "id"}
    THEN [data EXCEPT !.text = "masked(" \o @ \o ")",
                      !.json = "masked(" \o @ \o ")",
                      !.sensitive = "none"]
    ELSE data

\* Validator.validate({"execution_result": data})
Validator_validate(data) ==
    LET result_issues == ResultValidator_validate(data)
        compliance_issues == ComplianceChecker_validate(data)
    IN [validated_output |-> sanitize(data),
        validation_status |-> IF is_valid(result_issues) /\ is_valid(compliance_issues)
                              THEN "passed" ELSE "failed",
        validation_issues |-> result_issues \o compliance_issues]

\* The loop of validate_node over tool_results[1..n]:
\* [results, overall_status, validation_issues]
RECURSIVE ValidateLoop(_, _)
ValidateLoop(tool_results, n) ==
    IF n = 0
    THEN [results |-> <<>>, overall_status |-> "passed", validation_issues |-> <<>>]
    ELSE LET prev == ValidateLoop(tool_results, n - 1)
             result == tool_results[n]
         IN IF ~result.success
            THEN [prev EXCEPT !.results = Append(@, result)]
            ELSE IF ~result.result.isdict
            THEN [prev EXCEPT !.results = Append(@, result)]
            ELSE LET validated == Validator_validate(result.result) IN
                 [results |-> Append(prev.results,
                                     [result EXCEPT !.result = validated.validated_output]),
                  overall_status |->
                      IF validated.validation_status = "failed" THEN "failed"
                      ELSE IF validated.validation_status = "warning"
                              /\ prev.overall_status = "passed" THEN "warning"
                      ELSE prev.overall_status,
                  validation_issues |->
                      prev.validation_issues \o validated.validation_issues]

validate_node(s) ==
    LET r == ValidateLoop(s.tool_results, Len(s.tool_results)) IN
    [tool_results |-> r.results,
     validation_status |-> r.overall_status,
     validation_issues |-> r.validation_issues,
     status |-> "thinking"]

respond_node(s) == [status |-> "done"]

\* ---------------------------------------------------- conditional edges
\* should_continue as it would be without the comparison against the cap
should_continue_ignoring_cap(s) ==
    IF s.status = "tool_calling" THEN "execute_tools"
    ELSE IF s.status = "done" THEN "respond"
    ELSE "respond"

should_continue(s) ==
    IF s.status = "tool_calling" /\ s.iteration < s.max_iterations
    THEN "execute_tools"
    ELSE IF s.status = "done" THEN "respond"
    ELSE "respond"

after_tool_execution(s) == "validate"

\* after_validation as it would be if a failed tool result or a failed
\* validation ended the loop
after_validation_stopping_on_failure(s) ==
    IF \/ \E i \in 1..Len(s.tool_results) : ~s.tool_results[i].success
       \/ s.validation_status = "failed"
    THEN "respond"
    ELSE IF s.iteration < s.max_iterations THEN "think" ELSE "respond"

after_validation(s) ==
    IF s.iteration < s.max_iterations THEN "think" ELSE "respond"

\* ------------------------------------------------------------ SSE frames
\* One frame "data: {<key>: <name>, "data": <data>}".  key is the JSON key that
\* carries the name: "event" for the frames built with {'event': ...} and
\* "type" for the error frame of the except branch.
Frame(key, name, data) == [key |-> key, name |-> name, data |-> data]

ThinkingFrame(id, status, content, accumulated) ==
    Frame("event", "thinking",
          [id |-> id, status |-> status, content |-> content,
           accumulated |-> accumulated])

ToolCallFrame(id, name, arguments) ==
    Frame("event", "tool_call",
          [id |-> id, name |-> name, arguments |-> arguments, status |-> "calling"])

ToolResultFrame(result, result_content) ==
    Frame("event", "tool_result",
          [id |-> result.tool_call_id, name |-> result.tool_name,
           result |-> result_content, success |-> result.success,
           error |-> result.error])

MessageFrame(content) == Frame("event", "message", [content |-> content])

ErrorFrame(message) ==
    Frame("type", "error", [code |-> "stream_error", message |-> message])

DoneFrame == Frame("event", "done", <<>>)

\* --------------------------------------------- thinking steps (steps_map)
StepEntry(id, status, content) == [id |-> id, status |-> status, content |-> content]

\* id in steps_map
InSteps(log, id) == \E i \in 1..Len(log) : log[i].id = id

\* steps_map[id]: the entry appended last under that id
StepIndex(log, id) ==
    CHOOSE i \in 1..Len(log) :
        /\ log[i].id = id
        /\ \A j \in 1..Len(log) : log[j].id = id => j <= i

SetStepContent(log, id, content) ==
    IF InSteps(log, id) THEN [log EXCEPT ![StepIndex(log, id)].content = content]
    ELSE log

SetStep(log, id, status, content) ==
    IF InSteps(log, id)
    THEN [log EXCEPT ![StepIndex(log, id)].status = status,
                     ![StepIndex(log, id)].content = content]
    ELSE log

\* The uuid-based ids of thinking steps
ThinkId(n) == "think-" \o ToString(n)
initial_think_id == ThinkId(0)

\* ---------------------------------------- consumer: handling one chunk
\* c holds the generator's locals and out, the frames yielded so far.

\* "Handle Reasoning Content"
ChunkReasoning(c, chunk) ==
    IF ~Truthy(chunk.reasoning_content) THEN c
    ELSE LET c1 == IF ~Truthy(c.current_think_id)
                   THEN [c EXCEPT
                           !.current_think_id = ThinkId(c.next_uuid),
                           !.next_uuid = @ + 1,
                           !.accumulated_reasoning = "",
                           !.thinking_steps_log =
                               Append(@, StepEntry(ThinkId(c.next_uuid), "in-progress", "")),
                           !.out = Append(@, ThinkingFrame(ThinkId(c.next_uuid),
                                                           "in-progress", "", None))]
                   ELSE c
             acc == c1.accumulated_reasoning \o chunk.reasoning_content
         IN [c1 EXCEPT
               !.accumulated_reasoning = acc,
               !.thinking_steps_log = SetStepContent(@, c1.current_think_id, acc),
               !.out = Append(@, ThinkingFrame(c1.current_think_id, "in-progress",
                                               chunk.reasoning_content, acc))]

\* "Check if we should close the thinking step"
ChunkCloseThinking(c, chunk) ==
    IF Truthy(c.current_think_id)
       /\ (Truthy(chunk.content) \/ Truthy(chunk.finish_reason))
    THEN [c EXCEPT
            !.out = Append(@, ThinkingFrame(c.current_think_id, "completed",
                                            c.accumulated_reasoning, None)),
            !.thinking_steps_log =
                SetStep(@, c.current_think_id, "completed", c.accumulated_reasoning),
            !.current_think_id = None,
            !.accumulated_reasoning = ""]
    ELSE c

\* The body of "for tc_chunk in chunk.tool_call_chunk" for one delta
ToolCallDeltaStep(c, tc) ==
    LET idx == tc.index
        buf0 == c.active_tool_calls_buffer
    IN IF idx \notin DOMAIN buf0 /\ ~Truthy(tc.id) THEN c
       ELSE
       LET fresh == [id |-> tc.id, name |-> "", arguments |-> "",
                     has_emitted_start |-> FALSE]
           b0 == IF idx \in DOMAIN buf0 THEN buf0[idx] ELSE fresh
           b1 == [b0 EXCEPT
                    !.name = IF tc.name # None THEN @ \o tc.name ELSE @,
                    !.arguments = IF tc.arguments # None THEN @ \o tc.arguments ELSE @]
           start == b1.name # "" /\ ~b1.has_emitted_start
           b2 == [b1 EXCEPT !.has_emitted_start = @ \/ start]
           startFrames ==
               IF start
               THEN <<ToolCallFrame(b1.id, b1.name, [kind |-> "object", text |-> "{}"])>>
               ELSE <<>>
           log1 == IF start /\ ~InSteps(c.thinking_steps_log, b1.id)
                   THEN Append(c.thinking_steps_log, StepEntry(b1.id, "in-progress", ""))
                   ELSE c.thinking_steps_log
           update == b2.has_emitted_start /\ b2.arguments # ""
           updateFrames ==
               IF update
               THEN <<ToolCallFrame(b2.id, b2.name,
                                    IF b2.arguments \in ValidJson
                                    THEN [kind |-> "object", text |-> b2.arguments]
                                    ELSE [kind |-> "_raw_args", text |-> b2.arguments])>>
               ELSE <<>>
           log2 == IF update
                   THEN SetStepContent(log1, b2.id, "args:" \o b2.arguments)
                   ELSE log1
       IN [c EXCEPT
             !.active_tool_calls_buffer =
                 [i \in DOMAIN buf0 \cup {idx} |-> IF i = idx THEN b2 ELSE buf0[i]],
             !.thinking_steps_log = log2,
             !.out = @ \o startFrames \o updateFrames]

\* "Handle Tool Call Chunks"
RECURSIVE ChunkToolCalls(_, _)
ChunkToolCalls(c, deltas) ==
    IF deltas = <<>> THEN c
    ELSE ChunkToolCalls(ToolCallDeltaStep(c, Head(deltas)), Tail(deltas))

\* "Handle Message Content" as it would be with = in place of +=
ChunkContent_keeping_last_delta(c, chunk) ==
    IF Truthy(chunk.content)
    THEN [c EXCEPT !.full_response_content = chunk.content,
                   !.out = Append(@, MessageFrame(chunk.content))]
    ELSE c

\* "Handle Message Content"
ChunkContent(c, chunk) ==
    IF Truthy(chunk.content)
    THEN [c EXCEPT !.full_response_content = @ \o chunk.content,
                   !.out = Append(@, MessageFrame(chunk.content))]
    ELSE c

\* The else branch of the consume loop: the item is a StreamChunk
HandleChunk(c, chunk) ==
    ChunkContent(
        ChunkToolCalls(ChunkCloseThinking(ChunkReasoning(c, chunk), chunk),
                       chunk.tool_call_chunk),
        chunk)

\* ------------------------------------ consumer: handling a graph event
RECURSIVE StepsText(_, _)
StepsText(steps, i) ==
    IF i > Len(steps) THEN ""
    ELSE ToString(i) \o ". " \o steps[i] \o "\n" \o StepsText(steps, i + 1)

\* The display text built from planning_data
PlanContent(plan_data) ==
    (IF plan_data.reasoning # ""
     THEN "**Perception:**\n" \o plan_data.reasoning \o "\n\n" ELSE "")
    \o (IF plan_data.steps # <<>>
        THEN "**Plan:**\n" \o StepsText(plan_data.steps, 1) ELSE "")

\* if "plan" in event
HandlePlanEvent(c, data) ==
    IF "planning_data" \in DOMAIN data /\ data.planning_data # <<>>
    THEN LET content == PlanContent(data.planning_data[1])
             target_id == IF Truthy(c.current_think_id) THEN c.current_think_id
                          ELSE initial_think_id
             log == c.thinking_steps_log
         IN IF InSteps(log, target_id)
            THEN LET current_content == log[StepIndex(log, target_id)].content IN
                 IF current_content = ""
                 THEN [c EXCEPT
                         !.thinking_steps_log = SetStep(@, target_id, "completed", content),
                         !.out = Append(@, ThinkingFrame(target_id, "completed",
                                                         content, None)),
                         !.current_think_id = None]
                 ELSE [c EXCEPT
                         !.out = Append(@, ThinkingFrame(target_id, "completed",
                                                         current_content, None)),
                         !.current_think_id = None]
            ELSE c
    ELSE c

\* if "think" in event
HandleThinkEvent(c, data) ==
    IF "pending_tool_calls" \in DOMAIN data /\ data.pending_tool_calls # <<>>
    THEN LET calls == data.pending_tool_calls IN
         [c EXCEPT
            !.thinking_steps_log =
                @ \o [i \in 1..Len(calls) |->
                        StepEntry(calls[i].id, "in-progress",
                                  "args:" \o calls[i].arguments.text)],
            !.out = @ \o [i \in 1..Len(calls) |->
                            ToolCallFrame(calls[i].id, calls[i].name, calls[i].arguments)]]
    ELSE c

\* result_content of one tool result: "" when the key is missing
ResultContent(result) ==
    IF ~result.success THEN ""
    ELSE IF result.result.isdict THEN result.result.json
    ELSE result.result.text

RECURSIVE HandleResults(_, _)
HandleResults(c, results) ==
    IF results = <<>> THEN c
    ELSE LET result == Head(results)
             result_content == ResultContent(result)
             c1 == [c EXCEPT
                      !.thinking_steps_log =
                          SetStep(@, result.tool_call_id,
                                  IF result.success THEN "completed" ELSE "failed",
                                  IF Truthy(result.error)
                                  THEN "failed: " \o result.error
                                  ELSE "done: " \o result_content),
                      !.out = Append(@, ToolResultFrame(result, result_content))]
         IN HandleResults(c1, Tail(results))

\* if "execute_tools" in event
HandleExecuteToolsEvent(c, data) ==
    IF "tool_results" \in DOMAIN data THEN HandleResults(c, data.tool_results) ELSE c

\* The graph_event branch of the consume loop
HandleGraphEvent(c, item) ==
    IF item.node = "plan" THEN HandlePlanEvent(c, item.payload)
    ELSE IF item.node = "think" THEN HandleThinkEvent(c, item.payload)
    ELSE IF item.node = "execute_tools" THEN HandleExecuteToolsEvent(c, item.payload)
    ELSE c

\* ------------------------------------------------------------------ state
VARIABLES
    caller,                    \* current_user of stream_chat
    conversation_id,           \* None or the conversation the turn belongs to
    reasoner,                  \* TRUE when the model streams reasoning_content
    provider,                  \* adapter family the gateway routes the model to
    state,                     \* NFCAgentState of the running graph
    node,                      \* the graph node to run next ("END" when over)
    run_pc,                    \* position of run_graph
    graph_error,               \* str(e) of the exception the graph raised
    queue,                     \* the per-turn asyncio.Queue
    next_call,                 \* number of tool-call ids the provider issued
    think_turns,               \* number of think_node runs so far
    exec_rounds,               \* number of execute_tools_node runs so far
    llm_request,               \* messages of the latest gateway.chat call
    gen_pc,                    \* position of nfc_stream_generator
    frames,                    \* SSE frames yielded so far
    current_think_id,
    accumulated_reasoning,
    full_response_content,
    thinking_steps_log,
    active_tool_calls_buffer,
    next_uuid,                 \* number of uuid4() think ids drawn
    persisted                  \* ChatMessage rows committed by the generator

\* The skill run of test_skill: DAGScheduler and ParallelExecutor
VARIABLES
    nodes,                     \* workflow["nodes"] of the skill under test
    tasks,                     \* DAGScheduler._tasks: id -> Task
    dag_pc,                    \* position of ParallelExecutor.execute_all
    levels,                    \* levels of get_execution_order built so far
    order_error,               \* ids named by the dependency-cycle ValueError
    level_idx,                 \* number of the level being executed (from 1)
    run_state,                 \* run_task of each task of the level
    level_results,             \* (task.id, result) pairs returned in the level
    results,                   \* results of execute_all
    produced_at,               \* level whose run produced results[id]
    received,                  \* arguments the handler resolved when it started
    handler_starts,            \* number of times each handler was invoked
    handler_finishes,          \* number of times each handler returned or raised
    skill_test,                \* SkillTestResult returned by test_skill
    executor                   \* the ParallelExecutor: max_concurrency, semaphore

dag_vars == <<nodes, tasks, dag_pc, levels, order_error, level_idx, run_state,
              level_results, results, produced_at, received, handler_starts,
              handler_finishes, skill_test, executor>>

\* One evaluation of the permission checks of app/core/permissions.py
VARIABLES
    perm_user,                 \* the user argument (AnonymousUser for None)
    perm_obj,                  \* the Tool or Skill row: its access fields
    tool_granted,              \* <<result>> of check_tool_permission, once called
    skill_granted              \* <<result>> of check_skill_permission, once called

perm_vars == <<perm_user, perm_obj, tool_granted, skill_granted>>

\* ToolExecutor.execute with the statistics of the catalog rows
VARIABLES
    db_healthy,                \* FALSE when session.commit() may raise
    builtin_tools,             \* names registered with register_builtin
    db_stats,                  \* committed statistics of the catalog rows
    observed,                  \* per row: dispatch outcomes seen so far
    exec_turn                  \* per turn: its session, call and last outcome

exec_vars == <<db_healthy, builtin_tools, db_stats, observed, exec_turn>>

\* OpenAIAdapter.chat in stream-capture mode, with the consumer of its queue
VARIABLES
    cap_stream,                \* chunks chat_stream has yet to yield
    cap_yielded,               \* chunks chat_stream has yielded, as yielded
    cap_received,              \* chunks the consumer got, as it saw them
    cap_pc,                    \* "streaming", "returned" or "raised"
    cap_response               \* <<LLMResponse>> once chat has returned

capture_vars == <<cap_stream, cap_yielded, cap_received, cap_pc, cap_response>>

\* One LLMGateway with the provider records it reads
VARIABLES
    gw_db,                     \* ModelProvider rows by id
    gw_turn,                   \* the turn: caller user id, provider id, model
    gw_adapters,               \* LLMGateway._adapters: identifier -> row id
    gw_calls                   \* the calls made so far and what they selected

gateway_vars == <<gw_db, gw_turn, gw_adapters, gw_calls>>

\* validate_node applied to the tool results of one iteration
VARIABLES
    val_results,               \* state["tool_results"] before the node
    val_update                 \* <<update>> once validate_node has returned

validate_vars == <<val_results, val_update>>

\* One SSEStreamHandler with its callers and the task that iterates it
VARIABLES
    sse_queue,                 \* SSEStreamHandler._queue
    sse_closed,                \* SSEStreamHandler._closed
    sse_log,                   \* the calls made so far, in order
    sse_yielded,               \* what the iteration has yielded so far
    sse_pc                     \* "iterating" or "stopped"

sse_vars == <<sse_queue, sse_closed, sse_log, sse_yielded, sse_pc>>

\* One run of the plan -> execute -> validate graph of app/engine/graph.py
VARIABLES
    ag_state,                  \* the AgentState
    ag_node,                   \* the node to run next, "END" when finished
    ag_plans                   \* how many times plan has been entered

agent_vars == <<ag_state, ag_node, ag_plans>>

\* ConversationMemory (app/engine/memory.py)
VARIABLES
    mem_messages,      \* ConversationMemory.messages
    mem_max_messages,  \* ConversationMemory.max_messages
    mem_added          \* the messages add_message was called with, in order

memory_vars == <<mem_messages, mem_max_messages, mem_added>>

\* The components that are checked on their own
lib_vars == <<perm_vars, exec_vars, capture_vars,
             gateway_vars,
             validate_vars,
             sse_vars,
             agent_vars,
             memory_vars>>

graph_vars == <<state, node, run_pc, graph_error, next_call, think_turns,
                exec_rounds, llm_request>>
gen_vars == <<gen_pc, frames, current_think_id, accumulated_reasoning,
              full_response_content, thinking_steps_log,
              active_tool_calls_buffer, next_uuid, persisted>>
\* What no step of the chat turn changes: its inputs and the skill run
input_vars == <<caller, conversation_id, reasoner, provider, dag_vars,
                lib_vars>>
vars == <<input_vars, graph_vars, queue, gen_vars>>

\* ----------------------------------------------------------- environment
\* Text deltas a completion may carry (None: no content delta at all)
Contents == {None, "a"}

\* Outcomes of LLMPlanner.plan as plan_node sees them
PlanOutcomes ==
    {[ok |-> TRUE, reasoning |-> "p", steps |-> <<"s">>, error |-> None],
     [ok |-> FALSE, reasoning |-> "", steps |-> <<>>, error |-> "plan failed"]}

\* What the implementation behind a tool does when it is invoked: the
\* calculator returns {"sum": 483}, the HTTP adapter of priv_tool raises.
Implementation(tool_name) ==
    IF tool_name = "calculator"
    THEN [ok |-> TRUE, error |-> None,
          value |-> [isdict |-> TRUE, text |-> "{'sum': 483}",
                     json |-> "{\"sum\": 483}", keys |-> {"sum"},
                     sensitive |-> "none"]]
    ELSE [ok |-> FALSE, error |-> "boom", value |-> None]

\* Adapter families: reasoning_content is a field of the OpenAI-compatible
\* stream only
Providers == {"openai", "anthropic"}

ProviderErrorText == "provider error"
CommitErrorText == "commit failed"

GraphEvent(name, update) == [type |-> "graph_event", node |-> name, payload |-> update]
ErrorItem(message) == [type |-> "error", error |-> message]
Sentinel == [type |-> "sentinel"]

\* No skill run is in progress
EmptyMap == [k \in {} |-> None]

\* test_skill has not returned
NoTestResult == [done |-> FALSE]

\* ParallelExecutor(max_concurrency=k): the semaphore holds k permits
ParallelExecutor(k) == [max_concurrency |-> k, semaphore |-> k]

\* No permission check is under way
PermIdle ==
    /\ perm_user = AnonymousUser
    /\ perm_obj = Catalog["calculator"]
    /\ tool_granted = <<>>
    /\ skill_granted = <<>>

\* No tool execution with statistics is under way
ExecIdle ==
    /\ db_healthy = TRUE
    /\ builtin_tools = {}
    /\ db_stats = EmptyMap
    /\ observed = EmptyMap
    /\ exec_turn = EmptyMap

\* No stream-capture call is under way
CaptureIdle ==
    /\ cap_stream = <<>>
    /\ cap_yielded = <<>>
    /\ cap_received = <<>>
    /\ cap_pc = "returned"
    /\ cap_response = <<>>

\* No gateway is in use
GatewayIdle ==
    /\ gw_db = EmptyMap
    /\ gw_turn = EmptyMap
    /\ gw_adapters = EmptyMap
    /\ gw_calls = <<>>

\* No validation on its own is under way
ValidateIdle ==
    /\ val_results = <<>>
    /\ val_update = <<>>

\* No SSEStreamHandler is in use
SseIdle ==
    /\ sse_queue = <<>>
    /\ sse_closed = TRUE
    /\ sse_log = <<>>
    /\ sse_yielded = <<>>
    /\ sse_pc = "stopped"

\* No agent graph is running
AgentIdle ==
    /\ ag_state = EmptyMap
    /\ ag_node = "END"
    /\ ag_plans = 0

\* No conversation memory is in use
MemoryIdle ==
    /\ mem_messages = <<>>
    /\ mem_max_messages = 0
    /\ mem_added = <<>>

\* The components checked on their own are not in use
LibIdle == PermIdle /\ ExecIdle /\ CaptureIdle
    /\ GatewayIdle
    /\ ValidateIdle
    /\ SseIdle
    /\ AgentIdle
    /\ MemoryIdle

DagIdle ==
    /\ skill_test = NoTestResult
    /\ executor = ParallelExecutor(0)
    /\ nodes = <<>>
    /\ tasks = EmptyMap
    /\ dag_pc = "idle"
    /\ levels = <<>>
    /\ order_error = <<>>
    /\ level_idx = 0
    /\ run_state = EmptyMap
    /\ level_results = EmptyMap
    /\ results = EmptyMap
    /\ produced_at = EmptyMap
    /\ received = EmptyMap
    /\ handler_starts = EmptyMap
    /\ handler_finishes = EmptyMap

\* -------------------------------------------------------------------- Init
Init ==
    /\ DagIdle
    /\ LibIdle
    /\ caller \in Users
    /\ conversation_id \in {None, "conv-1"}
    /\ provider \in Providers
    /\ reasoner \in IF provider = "openai" THEN BOOLEAN ELSE {FALSE}
    /\ \E cap \in 0..MaxCap :
          state = InitialState("Hello", caller.id,
                               filter_tools_by_permission(caller, CatalogOrder), cap)
    /\ node = "plan"
    /\ run_pc = "streaming"
    /\ graph_error = None
    /\ queue = <<>>
    /\ next_call = 0
    /\ think_turns = 0
    /\ exec_rounds = 0
    /\ llm_request = <<>>
    /\ gen_pc = "start"
    /\ frames = <<>>
    /\ current_think_id = None
    /\ accumulated_reasoning = ""
    /\ full_response_content = ""
    /\ thinking_steps_log = <<>>
    /\ active_tool_calls_buffer = [i \in {} |-> None]
    /\ next_uuid = 0
    /\ persisted = <<>>

\* ------------------------------------------------- producer: run_graph
\* plan node followed by the put of its graph event.  The planner forwards
\* only the reasoning chunks of its own completion to the queue.
Plan ==
    /\ run_pc = "streaming" /\ node = "plan"
    /\ \E decision \in PlanOutcomes :
          LET update == plan_node(state, decision)
              forwarded == IF reasoner
                           THEN <<StreamChunk(None, "r", <<>>, None)>> ELSE <<>>
          IN /\ state' = ApplyUpdate(state, update)
             /\ queue' = queue \o forwarded \o <<GraphEvent("plan", update)>>
    /\ node' = "think"
    /\ UNCHANGED <<run_pc, graph_error, next_call, think_turns, exec_rounds,
                   llm_request, input_vars, gen_vars>>

\* think node: the OpenAI-compatible adapter streams the completion, forwards
\* every chunk to the queue and composes the response; the Anthropic adapter
\* returns the parsed response of one POST.  Then the graph event is put.
Think ==
    /\ run_pc = "streaming" /\ node = "think"
    /\ \E content \in Contents, n \in 0..(MaxCalls - next_call) :
       \E names \in [1..n -> ToolNames] :
          LET calls == [i \in 1..n |->
                          [id |-> "call-" \o ToString(next_call + i), name |-> names[i]]]
              chunks == IF provider = "openai"
                        THEN ProviderStream(IF reasoner THEN "r" ELSE None,
                                            content, calls)
                        ELSE <<>>
              response == IF provider = "openai"
                          THEN OpenAIAdapter_chat(chunks)
                          ELSE AnthropicAdapter_chat(AnthropicBlocks(content, calls))
              update == think_node(state, response)
          IN /\ llm_request' = llm_messages(state)
             /\ state' = ApplyUpdate(state, update)
             /\ queue' = queue \o chunks \o <<GraphEvent("think", update)>>
             /\ node' = should_continue(state')
             /\ next_call' = next_call + n
    /\ think_turns' = think_turns + 1
    /\ UNCHANGED <<run_pc, graph_error, exec_rounds, input_vars, gen_vars>>

\* think node whose provider call raises, possibly after some chunks have
\* been forwarded: the exception leaves stream_nfc_agent.
ThinkRaises ==
    /\ run_pc = "streaming" /\ node = "think"
    /\ \E partial \in {<<>>} \cup (IF provider = "openai"
                                   THEN {<<StreamChunk("a", None, <<>>, None)>>}
                                   ELSE {}) :
          queue' = queue \o partial
    /\ llm_request' = llm_messages(state)
    /\ think_turns' = think_turns + 1
    /\ graph_error' = ProviderErrorText
    /\ run_pc' = "except"
    /\ UNCHANGED <<state, node, next_call, exec_rounds, input_vars, gen_vars>>

ExecuteTools ==
    /\ run_pc = "streaming" /\ node = "execute_tools"
    /\ LET handlers == [i \in 1..Len(state.pending_tool_calls) |->
                           Implementation(state.pending_tool_calls[i].name)]
           update == execute_tools_node(state, handlers)
       IN /\ state' = ApplyUpdate(state, update)
          /\ queue' = Append(queue, GraphEvent("execute_tools", update))
          /\ node' = after_tool_execution(state')
    /\ exec_rounds' = exec_rounds + 1
    /\ UNCHANGED <<run_pc, graph_error, next_call, think_turns, llm_request,
                   input_vars, gen_vars>>

Validate ==
    /\ run_pc = "streaming" /\ node = "validate"
    /\ LET update == validate_node(state)
       IN /\ state' = ApplyUpdate(state, update)
          /\ queue' = Append(queue, GraphEvent("validate", update))
          /\ node' = after_validation(state')
    /\ UNCHANGED <<run_pc, graph_error, next_call, think_turns, exec_rounds,
                   llm_request, input_vars, gen_vars>>

Respond ==
    /\ run_pc = "streaming" /\ node = "respond"
    /\ LET update == respond_node(state)
       IN /\ state' = ApplyUpdate(state, update)
          /\ queue' = Append(queue, GraphEvent("respond", update))
    /\ node' = "END"
    /\ UNCHANGED <<run_pc, graph_error, next_call, think_turns, exec_rounds,
                   llm_request, input_vars, gen_vars>>

\* except Exception as e: await queue.put({"type": "error", "error": e})
RunGraphExcept ==
    /\ run_pc = "except"
    /\ queue' = Append(queue, ErrorItem(graph_error))
    /\ run_pc' = "finally"
    /\ UNCHANGED <<state, node, graph_error, next_call, think_turns, exec_rounds,
                   llm_request, input_vars, gen_vars>>

\* finally: await queue.put(None)
RunGraphFinally ==
    /\ \/ run_pc = "streaming" /\ node = "END"
       \/ run_pc = "finally"
    /\ queue' = Append(queue, Sentinel)
    /\ run_pc' = "finished"
    /\ UNCHANGED <<state, node, graph_error, next_call, think_turns, exec_rounds,
                   llm_request, input_vars, gen_vars>>

\* ------------------------------------- consumer: nfc_stream_generator
Locals ==
    [current_think_id |-> current_think_id,
     accumulated_reasoning |-> accumulated_reasoning,
     full_response_content |-> full_response_content,
     thinking_steps_log |-> thinking_steps_log,
     active_tool_calls_buffer |-> active_tool_calls_buffer,
     next_uuid |-> next_uuid,
     out |-> frames]

SetLocals(c) ==
    /\ current_think_id' = c.current_think_id
    /\ accumulated_reasoning' = c.accumulated_reasoning
    /\ full_response_content' = c.full_response_content
    /\ thinking_steps_log' = c.thinking_steps_log
    /\ active_tool_calls_buffer' = c.active_tool_calls_buffer
    /\ next_uuid' = c.next_uuid
    /\ frames' = c.out

\* The start of the generator as it would be without its first yield
GenStart_without_initial_frame ==
    /\ gen_pc = "start"
    /\ current_think_id' = initial_think_id
    /\ next_uuid' = next_uuid + 1
    /\ thinking_steps_log' =
           Append(thinking_steps_log, StepEntry(initial_think_id, "in-progress", ""))
    /\ frames' = frames
    /\ gen_pc' = "loop"
    /\ UNCHANGED <<accumulated_reasoning, full_response_content,
                   active_tool_calls_buffer, persisted, queue, input_vars, graph_vars>>

\* The initial "Thinking..." frame
GenStart ==
    /\ gen_pc = "start"
    /\ current_think_id' = initial_think_id
    /\ next_uuid' = next_uuid + 1
    /\ thinking_steps_log' =
           Append(thinking_steps_log, StepEntry(initial_think_id, "in-progress", ""))
    /\ frames' = Append(frames, ThinkingFrame(initial_think_id, "in-progress", "", None))
    /\ gen_pc' = "loop"
    /\ UNCHANGED <<accumulated_reasoning, full_response_content,
                   active_tool_calls_buffer, persisted, queue, input_vars, graph_vars>>

\* The consume loop as it would be if it took the newest item of the queue
GenConsume_newest_first ==
    /\ gen_pc = "loop" /\ queue # <<>>
    /\ Last(queue).type \in {"graph_event", "chunk"}
    /\ queue' = SubSeq(queue, 1, Len(queue) - 1)
    /\ \E c \in {IF Last(queue).type = "graph_event"
                  THEN HandleGraphEvent(Locals, Last(queue))
                  ELSE HandleChunk(Locals, Last(queue))} :
          SetLocals(c)
    /\ UNCHANGED <<gen_pc, persisted, input_vars, graph_vars>>

\* item = await queue.get() for a graph event or a stream chunk
GenConsume ==
    /\ gen_pc = "loop" /\ queue # <<>>
    /\ Head(queue).type \in {"graph_event", "chunk"}
    /\ queue' = Tail(queue)
    /\ \E c \in {IF Head(queue).type = "graph_event"
                  THEN HandleGraphEvent(Locals, Head(queue))
                  ELSE HandleChunk(Locals, Head(queue))} :
          SetLocals(c)
    /\ UNCHANGED <<gen_pc, persisted, input_vars, graph_vars>>

\* The except branch as it would be without its second yield
GenConsumeError_without_done ==
    /\ gen_pc = "loop" /\ queue # <<>>
    /\ Head(queue).type = "error"
    /\ queue' = Tail(queue)
    /\ frames' = frames \o <<ErrorFrame(Head(queue).error)>>
    /\ gen_pc' = "closed"
    /\ UNCHANGED <<current_think_id, accumulated_reasoning, full_response_content,
                   thinking_steps_log, active_tool_calls_buffer, next_uuid,
                   persisted, input_vars, graph_vars>>

\* item is the error item: raise item["error"], handled by the except branch
GenConsumeError ==
    /\ gen_pc = "loop" /\ queue # <<>>
    /\ Head(queue).type = "error"
    /\ queue' = Tail(queue)
    /\ frames' = frames \o <<ErrorFrame(Head(queue).error), DoneFrame>>
    /\ gen_pc' = "closed"
    /\ UNCHANGED <<current_think_id, accumulated_reasoning, full_response_content,
                   thinking_steps_log, active_tool_calls_buffer, next_uuid,
                   persisted, input_vars, graph_vars>>

\* item is None: close the pending thinking step, persist the assistant
\* message and yield done; a failing commit is handled by the except branch.
GenFinish ==
    /\ gen_pc = "loop" /\ queue # <<>>
    /\ Head(queue).type = "sentinel"
    /\ queue' = Tail(queue)
    /\ LET closing == IF Truthy(current_think_id)
                      THEN <<ThinkingFrame(current_think_id, "completed",
                                           accumulated_reasoning, None)>>
                      ELSE <<>>
       IN \/ /\ Truthy(conversation_id)
             /\ \/ /\ persisted' = Append(persisted,
                                       [conversation_id |-> conversation_id,
                                        role |-> "assistant",
                                        content |-> full_response_content,
                                        thinking_steps |-> thinking_steps_log])
                   /\ frames' = frames \o closing \o <<DoneFrame>>
                \/ /\ persisted' = persisted
                   /\ frames' = frames \o closing
                                \o <<ErrorFrame(CommitErrorText), DoneFrame>>
          \/ /\ ~Truthy(conversation_id)
             /\ persisted' = persisted
             /\ frames' = frames \o closing \o <<DoneFrame>>
    /\ gen_pc' = "closed"
    /\ UNCHANGED <<current_think_id, accumulated_reasoning, full_response_content,
                   thinking_steps_log, active_tool_calls_buffer, next_uuid,
                   input_vars, graph_vars>>

Next ==
    \/ Plan
    \/ Think
    \/ ThinkRaises
    \/ ExecuteTools
    \/ Validate
    \/ Respond
    \/ RunGraphExcept
    \/ RunGraphFinally
    \/ GenStart
    \/ GenConsume
    \/ GenConsumeError
    \/ GenFinish

\* One user turn of the streaming chat endpoint: run_graph and the generator
\* interleave at their await points.
Spec == Init /\ [][Next]_vars

\* The steps of the run_graph task and those of the generator
Producer ==
    \/ Plan
    \/ ThinkRaises
    \/ Think
    \/ ExecuteTools
    \/ Validate
    \/ Respond
    \/ RunGraphExcept
    \/ RunGraphFinally

Consumer ==
    \/ GenStart
    \/ GenConsumeError
    \/ GenFinish
    \/ GenConsume

\* run_graph is a scheduled asyncio task and the generator is driven by the
\* response writer: the event loop keeps running each while it can step.
FairSpec == Spec /\ WF_vars(Producer) /\ WF_vars(Consumer)

\* The client goes away while the stream is open: the response writer closes
\* the generator at its current yield or await.  GeneratorExit and
\* CancelledError are not Exceptions, so only the finally clause runs, which
\* resets the context variable of the generator's own context.
ClientDisconnect ==
    /\ gen_pc = "loop"
    /\ gen_pc' = "disconnected"
    /\ UNCHANGED <<frames, current_think_id, accumulated_reasoning,
                   full_response_content, thinking_steps_log,
                   active_tool_calls_buffer, next_uuid, persisted, queue,
                   input_vars, graph_vars>>

DisconnectNext == Next \/ ClientDisconnect

\* One turn whose client may disconnect at any point after the first frame
DisconnectSpec == Init /\ [][DisconnectNext]_vars

\* The graph driven alone (stream_nfc_agent under run_graph): the generator
\* takes no step.  stream_nfc_agent has no conversation parameter.
GraphInit == Init /\ conversation_id = None

GraphSpec == GraphInit /\ [][Producer]_vars

FairGraphSpec == GraphSpec /\ WF_vars(Producer)

\* ------------------------------------------------- properties: the graph
cap == state.max_iterations

\* name in [t.name for t in available_tools]
IsAvailable(name) ==
    \E i \in 1..Len(state.available_tools) : state.available_tools[i] = name

IsToolMessage(m) == m.role = "tool"
IsAssistantMessage(m) == m.role = "assistant"

ToolMessages == SelectSeq(state.messages, IsToolMessage)
AssistantMessages == SelectSeq(state.messages, IsAssistantMessage)

\* The graph has run to END without raising
GraphEnded == run_pc \in {"streaming", "finished"} /\ node = "END"

\* The graph is over: it reached END or its driver left it with an exception
GraphOver == node = "END" \/ run_pc # "streaming"

\* C1: every recorded result of a call to a tool that is in available_tools
\* and whose implementation succeeds has success = true and carries the
\* implementation's return value, and the tool message answering the call has
\* that value, stringified, as its content.
C1_AvailableToolCallSucceeds ==
    \A i \in 1..Len(state.tool_results) :
        LET r == state.tool_results[i] IN
        (IsAvailable(r.tool_name) /\ Implementation(r.tool_name).ok) =>
            /\ r.success
            /\ r.result = Implementation(r.tool_name).value
            /\ \E j \in 1..Len(state.messages) :
                  /\ state.messages[j].role = "tool"
                  /\ state.messages[j].tool_call_id = r.tool_call_id
                  /\ state.messages[j].content = Implementation(r.tool_name).value.text

\* Every think turn so far ended with a response that carries tool calls
EveryThinkCalledTools ==
    /\ think_turns = Len(AssistantMessages)
    /\ \A i \in 1..Len(AssistantMessages) : AssistantMessages[i].tool_calls # <<>>

\* C2: a run with cap k >= 1 in which the provider returned a tool call on
\* every think turn has performed exactly k execute_tools rounds when it ends.
C2_ExactlyCapExecuteRounds ==
    (GraphEnded /\ cap >= 1 /\ EveryThinkCalledTools) => exec_rounds = cap

\* C3: a run performs at most cap execute_tools rounds and at most cap + 1
\* think turns, with cap = 0 the single think is followed by respond, and
\* every run is eventually over.
C3_RunTerminatesWithinCap ==
    /\ [](/\ exec_rounds <= cap
          /\ think_turns <= cap + 1
          /\ (cap = 0 /\ think_turns >= 1 /\ run_pc = "streaming")
                => (node \in {"respond", "END"} /\ think_turns = 1))
    /\ <>GraphOver

\* A run with cap 2 that ended after two think turns and one round of tools
C3_Witness == GraphEnded /\ cap = 2 /\ think_turns = 2 /\ exec_rounds = 1

\* C4: every recorded result of a call to a tool the permission filter denies
\* to the caller has success = false and error = "forbidden".
C4_DeniedCallIsForbidden ==
    \A i \in 1..Len(state.tool_results) :
        LET r == state.tool_results[i] IN
        ~check_tool_permission(caller, Catalog[r.tool_name]) =>
            (~r.success /\ r.error = "forbidden")

\* C5: the step from execute_tools leads to validate, and the step from
\* validate leads to think when iteration < cap and to respond otherwise,
\* whatever the tool results and the validation status are.
C5_RoutingIgnoresFailures ==
    [][/\ (run_pc = "streaming" /\ node = "execute_tools") => node' = "validate"
       /\ (run_pc = "streaming" /\ node = "validate") =>
             node' = IF state.iteration < cap THEN "think" ELSE "respond"]_vars

\* validate routed back to think although a tool result had failed
C5_Witness ==
    /\ node = "think" /\ exec_rounds >= 1
    /\ \E i \in 1..Len(state.tool_results) : ~state.tool_results[i].success

\* C6: a run that reached the cap while the last response asked for tools
\* goes to respond with final_response equal to the content of the last
\* assistant message.
C6_FinalResponseAtCap ==
    (/\ run_pc = "streaming" /\ node \in {"respond", "END"}
     /\ state.pending_tool_calls # <<>> /\ state.iteration >= cap)
        => state.final_response = Last(AssistantMessages).content

\* C7: one execute_tools step appends exactly one tool message per pending
\* call, in the order of the calls, the i-th with the id and the name of the
\* i-th call and with the stringified result or "Error: " and the error text
\* as content; it empties pending_tool_calls and sets status to validating.
C7_ToolMessagesInCallOrder ==
    [][(run_pc = "streaming" /\ node = "execute_tools") =>
          LET calls == state.pending_tool_calls
              before == Len(state.messages)
          IN /\ Len(state'.messages) = before + Len(calls)
             /\ SubSeq(state'.messages, 1, before) = state.messages
             /\ Len(state'.tool_results) = Len(calls)
             /\ \A i \in 1..Len(calls) :
                   LET m == state'.messages[before + i]
                       r == state'.tool_results[i]
                   IN /\ m.role = "tool"
                      /\ m.tool_call_id = calls[i].id
                      /\ m.name = calls[i].name
                      /\ r.tool_call_id = calls[i].id
                      /\ m.content = IF r.success THEN r.result.text
                                     ELSE "Error: " \o r.error
             /\ state'.pending_tool_calls = <<>>
             /\ state'.status = "validating"]_vars

\* One round has just answered two calls of different tools
C7_Witness ==
    /\ node = "validate" /\ exec_rounds = 1 /\ Len(ToolMessages) = 2
    /\ ToolMessages[1].name # ToolMessages[2].name

\* C8: every tool message carries the id of a tool call of an assistant
\* message that comes earlier in the list.
C8_ToolMessageAnswersEarlierCall ==
    \A i \in 1..Len(state.messages) :
        state.messages[i].role = "tool" =>
            \E j \in 1..(i - 1) :
                /\ state.messages[j].role = "assistant"
                /\ \E k \in 1..Len(state.messages[j].tool_calls) :
                      state.messages[j].tool_calls[k].id = state.messages[i].tool_call_id

\* A finished run whose list holds a tool message after a second assistant
\* message
C8_Witness ==
    /\ GraphEnded /\ Len(ToolMessages) >= 1 /\ Len(AssistantMessages) = 2
    /\ Last(state.messages).role = "assistant"

\* ------------------------------------------------ properties: the stream
IsDoneFrame(f) == f.key = "event" /\ f.name = "done"

\* Number of done frames yielded so far
DoneCount == Cardinality({i \in 1..Len(frames) : IsDoneFrame(frames[i])})

\* The generator has returned
StreamClosed == gen_pc = "closed"

\* C9: the stream never holds more than one done frame, a done frame is the
\* last frame and closes the stream, a closed stream holds one, and every
\* turn's stream is eventually closed, whether the graph ends or raises.
C9_ExactlyOneDoneAtTheEnd ==
    /\ [](/\ DoneCount <= 1
          /\ DoneCount = 1 => (StreamClosed /\ IsDoneFrame(Last(frames)))
          /\ StreamClosed => DoneCount = 1)
    /\ <>StreamClosed

\* The stream of a turn whose graph raised has been closed
C9_Witness ==
    /\ StreamClosed /\ graph_error # None
    /\ Len(frames) >= 3 /\ IsDoneFrame(Last(frames))

\* C10: when the graph raised, the closed stream ends with an error event
\* frame that carries code and message, followed by done, and no assistant
\* message has been written to the conversation.
C10_ErrorEventThenDone ==
    (StreamClosed /\ graph_error # None) =>
        /\ Len(frames) >= 2
        /\ IsDoneFrame(frames[Len(frames)])
        /\ frames[Len(frames) - 1].name = "error"
        /\ frames[Len(frames) - 1].key = "event"
        /\ DOMAIN frames[Len(frames) - 1].data = {"code", "message"}
        /\ frames[Len(frames) - 1].data.message = graph_error
        /\ persisted = <<>>

IsToolCallFrame(f) == f.key = "event" /\ f.name = "tool_call"
IsToolResultFrame(f) == f.key = "event" /\ f.name = "tool_result"

\* Positions of the tool_result frames that carry the id
ResultFramesOf(id) ==
    {i \in 1..Len(frames) : IsToolResultFrame(frames[i]) /\ frames[i].data.id = id}

\* C11: every tool_call frame of an id comes before the tool_result frame of
\* that id, and once done has been emitted every id that had a tool_call
\* frame has exactly one tool_result frame.
C11_CallFramesThenOneResult ==
    \A j \in 1..Len(frames) :
        IsToolCallFrame(frames[j]) =>
            /\ \A i \in ResultFramesOf(frames[j].data.id) : j < i
            /\ DoneCount = 1 => Cardinality(ResultFramesOf(frames[j].data.id)) = 1

IsMessageFrame(f) == f.key = "event" /\ f.name = "message"
IsErrorFrame(f) == f.name = "error"

\* Concatenation of the content of the message frames among fs
RECURSIVE MessageText(_)
MessageText(fs) ==
    IF fs = <<>> THEN ""
    ELSE (IF IsMessageFrame(Head(fs)) THEN Head(fs).data.content ELSE "")
         \o MessageText(Tail(fs))

\* The content delta of a queue item ("" for an item that carries none)
ContentDelta(item) ==
    IF item.type = "chunk" /\ Truthy(item.content) THEN item.content ELSE ""

\* The turn completed: the stream is closed and carries no error frame
TurnSucceeded ==
    StreamClosed /\ \A i \in 1..Len(frames) : ~IsErrorFrame(frames[i])

\* C12: the accumulated response grows by exactly the content delta of each
\* item taken from the queue, in the order the items are taken, and always
\* equals the concatenation of the message frames; a turn with a conversation
\* id that completed has consumed every item and persisted exactly one
\* assistant message, whose content is the accumulated response.
C12_PersistedContentIsStreamedContent ==
    /\ [](/\ full_response_content = MessageText(frames)
          /\ (TurnSucceeded /\ Truthy(conversation_id)) =>
                /\ queue = <<>>
                /\ Len(persisted) = 1
                /\ persisted[1].role = "assistant"
                /\ persisted[1].conversation_id = conversation_id
                /\ persisted[1].content = full_response_content)
    /\ [][IF queue # <<>> /\ queue' = Tail(queue)
          THEN full_response_content' = full_response_content \o ContentDelta(Head(queue))
          ELSE full_response_content' = full_response_content]_vars

\* A completed turn of two completions persisted both content deltas
C12_Witness ==
    /\ TurnSucceeded /\ Truthy(conversation_id) /\ think_turns = 2
    /\ Len(persisted) = 1 /\ persisted[1].content = "aa"

\* The provider answered the single think turn with content and no tool call
PlainChatTurn ==
    /\ GraphEnded /\ think_turns = 1 /\ next_call = 0
    /\ Truthy(state.final_response)

\* C13: the completed stream of a plain-chat turn holds no tool_call and no
\* tool_result frame and at least one message frame, and the concatenation
\* of its message frames is non-empty and equals the final assistant content
\* of the graph, for the OpenAI-compatible and the Anthropic adapter.
C13_PlainChatStreamEqualsAnswer ==
    (TurnSucceeded /\ PlainChatTurn) =>
        /\ \A i \in 1..Len(frames) :
               ~IsToolCallFrame(frames[i]) /\ ~IsToolResultFrame(frames[i])
        /\ \E i \in 1..Len(frames) : IsMessageFrame(frames[i])
        /\ MessageText(frames) # ""
        /\ MessageText(frames) = state.final_response

\* C14: the first frame of the stream is the thinking frame of the initial
\* step, in progress and with empty content, and the generator takes no item
\* from the queue before it has yielded that frame, however far run_graph is.
C14_FirstFrameIsInitialThinking ==
    /\ [](frames # <<>> =>
            /\ frames[1].key = "event" /\ frames[1].name = "thinking"
            /\ frames[1].data.id = initial_think_id
            /\ frames[1].data.status = "in-progress"
            /\ frames[1].data.content = "")
    /\ [][(queue # <<>> /\ queue' = Tail(queue)) => frames # <<>>]_vars

\* run_graph had finished before the generator took its first item
C14_Witness ==
    /\ run_pc = "finished" /\ gen_pc = "loop" /\ Len(queue) >= 3
    /\ frames = <<ThinkingFrame(initial_think_id, "in-progress", "", None)>>

\* C15: once the generator has been closed by a disconnect, no step performs
\* an LLM call, runs a tool round or puts an item on the queue.
C15_NoWorkAfterDisconnect ==
    [][gen_pc = "disconnected" =>
          /\ think_turns' = think_turns
          /\ exec_rounds' = exec_rounds
          /\ queue' = queue]_vars

\* ============================================================ skill DAG run
\* ParallelExecutor(max_concurrency=10)
max_concurrency == 10

\* Loop iterations of get_execution_order that are followed
MaxLevels == MaxTasks + 1

\* ------------------------------------------------------- python values
\* A python value is a dict (items: key -> value) or a leaf (items: the
\* string, None included).
Dict(f) == [isdict |-> TRUE, items |-> f]
Leaf(v) == [isdict |-> FALSE, items |-> v]
PyNone == Leaf(None)

\* a == b for two python values
PyEq(a, b) == a.isdict = b.isdict /\ a.items = b.items

\* {**f, **g} and dict.update
Merge(f, g) ==
    [k \in DOMAIN f \cup DOMAIN g |-> IF k \in DOMAIN g THEN g[k] ELSE f[k]]

Range(seq) == {seq[i] : i \in 1..Len(seq)}

\* ------------------------------------------------ workflow under test
NodeId(i) == "s" \o ToString(i)

\* Tools a node may name: lookup returns {"id": "X"}, broken raises
SkillTools == {"lookup", "broken"}

\* A params_mapping value: "$.a.b" is Path(<<"a", "b">>), the parts that
\* path.lstrip("$.").split(".") yields; any other value is a literal
Path(parts) == [kind |-> "path", parts |-> parts, value |-> PyNone]
Literal(v) == [kind |-> "literal", parts |-> <<>>, value |-> v]
\* A mapping value that is itself a dict of mapping values
Nested(m) == [kind |-> "dict", parts |-> <<>>, value |-> m]

\* The params_mapping of a node: for each dependency d the key d maps to
\* "$.d.id" and the key r_d to "$.results.d.id"; mode is a literal
ParamsMapping(deps) ==
    [k \in deps \cup {"r_" \o d : d \in deps} \cup {"mode"} |->
        IF k = "mode" THEN Literal(Leaf("fast"))
        ELSE IF k \in deps THEN Path(<<k, "id">>)
        ELSE Path(<<"results", CHOOSE d \in deps : k = "r_" \o d, "id">>)]

\* request.params of the test request
SkillInput == Dict([id |-> Leaf("in")])

\* What tool_executor.execute does for a node's tool: the value it returns
\* or the ToolExecutionError it raises
SkillToolOutcome(tool_name, args) ==
    IF tool_name = "lookup"
    THEN [ok |-> TRUE, value |-> Dict([id |-> Leaf("X")]), error |-> None]
    ELSE [ok |-> FALSE, value |-> PyNone,
          error |-> ToolExecutionError(tool_name, "boom")]

\* ------------------------------------------------- resolve_value/params
RECURSIVE Walk(_, _)
Walk(current, parts) ==
    IF parts = <<>> THEN current
    ELSE IF current.isdict /\ Head(parts) \in DOMAIN current.items
         THEN Walk(current.items[Head(parts)], Tail(parts))
    ELSE PyNone

\* resolve_value(path, context)
resolve_value(path, context) ==
    IF path.kind # "path" THEN path.value ELSE Walk(context, path.parts)

\* resolve_params(mapping, context)
RECURSIVE resolve_params(_, _)
resolve_params(mapping, context) ==
    Dict([k \in DOMAIN mapping |->
            IF mapping[k].kind = "path" THEN resolve_value(mapping[k], context)
            ELSE IF mapping[k].kind = "dict"
                 THEN resolve_params(mapping[k].value, context)
            ELSE mapping[k].value])

\* ------------------------------------------------------- DAGScheduler
\* Task(id, handler, dependencies) as add_task creates it
Task(wf_node) ==
    [id |-> wf_node.id, dependencies |-> wf_node.depends_on, status |-> "pending",
     result |-> PyNone, error |-> None]

\* The ids in the order of self._tasks
TaskOrder == [i \in 1..Len(nodes) |-> nodes[i].id]

Node(id) == nodes[CHOOSE i \in 1..Len(nodes) : nodes[i].id = id]

\* Task.is_ready(completed)
is_ready(task, completed) == task.dependencies \subseteq completed

\* DAGScheduler.get_ready_tasks(completed), as the list of ids
get_ready_tasks(completed) ==
    SelectSeq(TaskOrder,
              LAMBDA id : tasks[id].status = "pending" /\ is_ready(tasks[id], completed))

\* completed of get_execution_order after the levels built so far
Completed(lvls) == UNION {Range(lvls[i]) : i \in 1..Len(lvls)}

\* remaining of the cycle branch
Remaining(completed) == SelectSeq(TaskOrder, LAMBDA id : id \notin completed)

\* ------------------------------------------------------------ DagInit
\* The chat endpoint is not involved in a skill test
ChatIdle ==
    /\ caller = CHOOSE u \in Users : u.id = "u_admin"
    /\ conversation_id = None
    /\ provider = "openai"
    /\ reasoner = FALSE
    /\ state = InitialState("Hello", caller.id, <<>>, 0)
    /\ node = "END"
    /\ run_pc = "finished"
    /\ graph_error = None
    /\ queue = <<>>
    /\ next_call = 0
    /\ think_turns = 0
    /\ exec_rounds = 0
    /\ llm_request = <<>>
    /\ gen_pc = "closed"
    /\ frames = <<>>
    /\ current_think_id = None
    /\ accumulated_reasoning = ""
    /\ full_response_content = ""
    /\ thinking_steps_log = <<>>
    /\ active_tool_calls_buffer = EmptyMap
    /\ next_uuid = 0
    /\ persisted = <<>>

\* test_skill up to the creation of the executor: a workflow of 1..MaxTasks
\* nodes, each depending on any set of other nodes, has been turned into tasks
DagBuilt ==
    /\ ChatIdle
    /\ LibIdle
    /\ \E n \in 1..MaxTasks :
       \E deps \in [1..n -> SUBSET {NodeId(j) : j \in 1..n}],
          tools \in [1..n -> SkillTools] :
          /\ \A i \in 1..n : NodeId(i) \notin deps[i]
          /\ nodes = [i \in 1..n |->
                        [id |-> NodeId(i), tool |-> tools[i],
                         depends_on |-> deps[i],
                         params_mapping |-> ParamsMapping(deps[i])]]
    /\ tasks = [id \in Range(TaskOrder) |-> Task(Node(id))]
    /\ dag_pc = "ordering"
    /\ levels = <<>>
    /\ order_error = <<>>
    /\ level_idx = 0
    /\ run_state = EmptyMap
    /\ level_results = EmptyMap
    /\ results = EmptyMap
    /\ produced_at = EmptyMap
    /\ received = [id \in Range(TaskOrder) |-> PyNone]
    /\ handler_starts = [id \in Range(TaskOrder) |-> 0]
    /\ handler_finishes = [id \in Range(TaskOrder) |-> 0]
    /\ skill_test = NoTestResult

\* test_skill up to the call of execute_all, with the executor it creates
DagInit == DagBuilt /\ executor = ParallelExecutor(max_concurrency)

\* Limits a caller may give ParallelExecutor instead of the default
ConcurrencyLimits == {1, 2}

\* execute_all on an executor created with max_concurrency below the
\* number of tasks a level may hold
ConcurrencyInit ==
    DagBuilt /\ \E k \in ConcurrencyLimits : executor = ParallelExecutor(k)

turn_vars == <<caller, conversation_id, reasoner, provider, graph_vars, queue,
               gen_vars>>
\* What no step of the skill run changes
chat_vars == <<turn_vars, lib_vars>>

\* ------------------------------------------- get_execution_order, stepwise
\* One iteration of "while len(completed) < len(self._tasks)"; the function
\* returns when the condition fails and raises when no task is ready
ScheduleLevel ==
    /\ dag_pc = "ordering" /\ Len(levels) < MaxLevels
    /\ LET completed == Completed(levels)
           ready == get_ready_tasks(completed)
       IN IF ready = <<>>
          THEN /\ order_error' = Remaining(completed)
               /\ dag_pc' = "raised"
               /\ levels' = levels
          ELSE /\ levels' = Append(levels, ready)
               /\ order_error' = order_error
               /\ dag_pc' = IF Cardinality(Completed(levels')) < Len(nodes)
                            THEN "ordering" ELSE "executing"
    /\ UNCHANGED <<nodes, tasks, level_idx, run_state, level_results, results,
                   produced_at, received, handler_starts, handler_finishes,
                   skill_test, executor,
                   chat_vars>>

\* ------------------------------------------------------------ execute_all
\* asyncio.gather of the level has returned (or no level was started yet)
LevelDone == \A t \in DOMAIN run_state : run_state[t] = "done"

\* results.update(level_results)
UpdateResults ==
    /\ results' = Merge(results, level_results)
    /\ produced_at' = Merge(produced_at,
                            [t \in DOMAIN level_results |-> level_idx])
    /\ level_results' = EmptyMap

\* The context execute_all passes to the level being executed
Context ==
    IF level_idx <= 1 THEN Dict([input |-> SkillInput])
    ELSE Dict([input |-> SkillInput, results |-> Dict(results)])

\* The next iteration of "for level_idx, level in enumerate(execution_order)":
\* the results of the level before are merged and the level's run_task
\* coroutines are created
NextLevel ==
    /\ dag_pc = "executing" /\ LevelDone /\ level_idx < Len(levels)
    /\ UpdateResults
    /\ level_idx' = level_idx + 1
    /\ run_state' = [t \in Range(levels[level_idx + 1]) |-> "waiting"]
    /\ UNCHANGED <<nodes, tasks, dag_pc, levels, order_error, received,
                   handler_starts, handler_finishes, skill_test, executor,
                   chat_vars>>

\* return results
ExecuteAllReturn ==
    /\ dag_pc = "executing" /\ LevelDone /\ level_idx = Len(levels)
    /\ UpdateResults
    /\ run_state' = EmptyMap
    /\ dag_pc' = "returned"
    /\ UNCHANGED <<nodes, tasks, levels, order_error, level_idx, received,
                   handler_starts, handler_finishes, skill_test, executor,
                   chat_vars>>

\* asyncio.Semaphore.locked(): no permit is left
Semaphore_never_locked(value) == FALSE

Semaphore_locked(value) == value = 0

\* run_task up to the first await of the handler: the semaphore is taken,
\* DefaultTaskExecutor.execute marks the task RUNNING and task_handler
\* resolves its arguments from the context.  gather starts the coroutines in
\* the order of the level.
TaskStart(t) ==
    /\ dag_pc = "executing" /\ t \in DOMAIN run_state /\ run_state[t] = "waiting"
    /\ \A i \in 1..Len(levels[level_idx]) :
          levels[level_idx][i] = t =>
             \A j \in 1..(i - 1) : run_state[levels[level_idx][j]] # "waiting"
    /\ ~Semaphore_locked(executor.semaphore)
    /\ executor' = [executor EXCEPT !.semaphore = @ - 1]
    /\ run_state' = [run_state EXCEPT ![t] = "running"]
    /\ tasks' = [tasks EXCEPT ![t].status = "running"]
    /\ received' = [received EXCEPT
                      ![t] = resolve_params(Node(t).params_mapping, Context)]
    /\ handler_starts' = [handler_starts EXCEPT ![t] = @ + 1]
    /\ UNCHANGED <<nodes, dag_pc, levels, order_error, level_idx, level_results,
                   results, produced_at, handler_finishes, skill_test,
                   chat_vars>>

\* run_task as it would be if it wrote its result into the shared results
\* dict itself instead of returning the pair to gather
TaskFinish_writing_results(t) ==
    /\ dag_pc = "executing" /\ t \in DOMAIN run_state /\ run_state[t] = "running"
    /\ LET outcome == SkillToolOutcome(Node(t).tool, received[t])
           result == IF outcome.ok THEN outcome.value
                     ELSE Dict([error |-> Leaf(outcome.error)])
       IN /\ tasks' = IF outcome.ok
                      THEN [tasks EXCEPT ![t].status = "completed",
                                         ![t].result = outcome.value]
                      ELSE [tasks EXCEPT ![t].status = "failed",
                                         ![t].error = outcome.error]
          /\ results' = Merge(results, [k \in {t} |-> result])
          /\ produced_at' = Merge(produced_at, [k \in {t} |-> level_idx])
    /\ run_state' = [run_state EXCEPT ![t] = "done"]
    /\ handler_finishes' = [handler_finishes EXCEPT ![t] = @ + 1]
    /\ executor' = [executor EXCEPT !.semaphore = @ + 1]
    /\ UNCHANGED <<nodes, dag_pc, levels, order_error, level_idx, level_results,
                   received, handler_starts, skill_test, chat_vars>>

\* run_task as it would be without its except clause: the exception of a
\* failing handler leaves gather and execute_all
TaskFinish_without_except(t) ==
    /\ dag_pc = "executing" /\ t \in DOMAIN run_state /\ run_state[t] = "running"
    /\ LET outcome == SkillToolOutcome(Node(t).tool, received[t])
       IN IF outcome.ok
          THEN /\ tasks' = [tasks EXCEPT ![t].status = "completed",
                                         ![t].result = outcome.value]
               /\ level_results' = Merge(level_results,
                                         [k \in {t} |-> outcome.value])
               /\ dag_pc' = dag_pc
          ELSE /\ tasks' = [tasks EXCEPT ![t].status = "failed",
                                         ![t].error = outcome.error]
               /\ level_results' = level_results
               /\ dag_pc' = "raised"
    /\ run_state' = [run_state EXCEPT ![t] = "done"]
    /\ handler_finishes' = [handler_finishes EXCEPT ![t] = @ + 1]
    /\ executor' = [executor EXCEPT !.semaphore = @ + 1]
    /\ UNCHANGED <<nodes, levels, order_error, level_idx, results,
                   produced_at, received, handler_starts, skill_test,
                   chat_vars>>

\* The handler returns or raises: DefaultTaskExecutor.execute records the
\* outcome on the task and run_task turns it into its (task.id, result) pair
TaskFinish(t) ==
    /\ dag_pc = "executing" /\ t \in DOMAIN run_state /\ run_state[t] = "running"
    /\ LET outcome == SkillToolOutcome(Node(t).tool, received[t])
       IN IF outcome.ok
          THEN /\ tasks' = [tasks EXCEPT ![t].status = "completed",
                                         ![t].result = outcome.value]
               /\ level_results' = Merge(level_results,
                                         [k \in {t} |-> outcome.value])
          ELSE /\ tasks' = [tasks EXCEPT ![t].status = "failed",
                                         ![t].error = outcome.error]
               /\ level_results' =
                      Merge(level_results,
                            [k \in {t} |-> Dict([error |-> Leaf(outcome.error)])])
    /\ run_state' = [run_state EXCEPT ![t] = "done"]
    /\ handler_finishes' = [handler_finishes EXCEPT ![t] = @ + 1]
    /\ executor' = [executor EXCEPT !.semaphore = @ + 1]
    /\ UNCHANGED <<nodes, dag_pc, levels, order_error, level_idx, results,
                   produced_at, received, handler_starts, skill_test,
                   chat_vars>>

\* ---------------------------------------------- test_skill, after the run
\* workflow["output_mapping"] of the skill under test: absent, a reference
\* to a field of s2, or references to a whole node output and to the input
\* next to a literal and a nested dict
OutputMappings ==
    {EmptyMap,
     [result |-> Path(<<"s2", "id">>)],
     [first |-> Path(<<"s1">>), echo |-> Path(<<"input", "id">>),
      mode |-> Literal(Leaf("fast")),
      inner |-> Nested([id |-> Path(<<"s1", "id">>)])]}

\* mapping_context = {"input": request.params, **exec_output}
mapping_context == Dict(Merge([input |-> SkillInput], results))

\* test_skill as it would be if it resolved the output mapping against
\* the context the tasks of the last level ran with
final_result_in_task_context(output_mapping) ==
    IF DOMAIN output_mapping # {}
    THEN resolve_params(output_mapping,
                        Dict([input |-> SkillInput, results |-> Dict(results)]))
    ELSE Dict(results)

\* final_result of step 5 ("Process Output")
final_result(output_mapping) ==
    IF DOMAIN output_mapping # {}
    THEN resolve_params(output_mapping, mapping_context)
    ELSE Dict(results)

\* execute_all has returned: test_skill projects the output and returns
TestSkillReturn ==
    /\ dag_pc = "returned" /\ ~skill_test.done
    /\ \E output_mapping \in OutputMappings :
          skill_test' = [done |-> TRUE, success |-> TRUE,
                         output_mapping |-> output_mapping,
                         result |-> final_result(output_mapping),
                         tool_results |-> Dict(results)]
    /\ UNCHANGED <<nodes, tasks, dag_pc, levels, order_error, level_idx,
                   run_state, level_results, results, produced_at, received,
                   handler_starts, handler_finishes, executor,
                   chat_vars>>

\* execute_all raised: the except clause of test_skill returns the error
TestSkillFails ==
    /\ dag_pc = "raised" /\ ~skill_test.done
    /\ skill_test' = [done |-> TRUE, success |-> FALSE, error |-> order_error]
    /\ UNCHANGED <<nodes, tasks, dag_pc, levels, order_error, level_idx,
                   run_state, level_results, results, produced_at, received,
                   handler_starts, handler_finishes, executor,
                   chat_vars>>

DagNext ==
    \/ ScheduleLevel
    \/ NextLevel
    \/ ExecuteAllReturn
    \/ TestSkillReturn
    \/ TestSkillFails
    \/ \E t \in DOMAIN run_state : TaskStart(t)
    \/ \E t \in DOMAIN run_state : TaskFinish(t)

\* One call of execute_all on the DAG of a skill
DagSpec == DagInit /\ [][DagNext]_vars

\* execute_all is awaited by the request handler: the event loop keeps
\* running it and the handlers it awaits
FairDagSpec == DagSpec /\ WF_vars(DagNext)

\* ------------------------------------------- properties: the skill DAG run
TaskIds == Range(TaskOrder)

\* The tasks reachable from the set S along at most k depends_on edges
RECURSIVE Reach(_, _)
Reach(S, k) ==
    IF k = 0 THEN S
    ELSE Reach(S \cup UNION {Node(t).depends_on : t \in S}, k - 1)

\* depends_on contains a cycle
HasCycle == \E t \in TaskIds : t \in Reach(Node(t).depends_on, Len(nodes))

\* get_execution_order has returned its levels
OrderReturned == dag_pc \in {"executing", "returned"}

\* The levels that hold the task
LevelsOf(t) == {i \in 1..Len(levels) : t \in Range(levels[i])}

\* C16: in an acyclic graph every handler is invoked at most once, and exactly
\* once by the time execute_all returns a result for exactly the registered
\* ids; a handler starts only after the handlers of all its dependencies have
\* finished; the returned order holds each task in exactly one level, which
\* comes strictly after the levels of its dependencies.
C16_EachTaskOnceInOneLevel ==
    ~HasCycle =>
        /\ \A t \in TaskIds :
              /\ handler_starts[t] <= 1
              /\ handler_starts[t] >= 1 =>
                    \A d \in Node(t).depends_on : handler_finishes[d] >= 1
        /\ dag_pc = "returned" =>
              /\ DOMAIN results = TaskIds
              /\ \A t \in TaskIds : handler_starts[t] = 1
        /\ OrderReturned =>
              \A t \in TaskIds :
                 /\ Cardinality(LevelsOf(t)) = 1
                 /\ \A d \in Node(t).depends_on :
                       \A i \in LevelsOf(t), j \in LevelsOf(d) : j < i

\* The tasks that lie on a dependency cycle or depend on one
Blocked ==
    {t \in TaskIds :
        \E u \in Reach({t}, Len(nodes)) : u \in Reach(Node(u).depends_on, Len(nodes))}

\* C17: when depends_on contains a cycle, no handler is ever invoked and no
\* task leaves the status pending, get_execution_order eventually raises,
\* and the error names the tasks that can never be scheduled.  The while
\* loop of get_execution_order is a function of the set `completed` alone,
\* so it raises only if each pass over a cyclic graph either raises or
\* completes a task that no earlier pass had completed; the middle
\* conjunct states this step by step.
C17_CycleRaisesBeforeAnyHandler ==
    /\ [](HasCycle =>
            /\ \A t \in TaskIds :
                  handler_starts[t] = 0 /\ tasks[t].status = "pending"
            /\ dag_pc \notin {"executing", "returned"}
            /\ dag_pc = "raised" => Range(order_error) = Blocked)
    /\ [][(HasCycle /\ dag_pc = "ordering") =>
            \/ dag_pc' = "raised"
            \/ Completed(levels') # Completed(levels)]_vars
    /\ <>(HasCycle => dag_pc = "raised")

\* C18: a task that has started received, under the key of each dependency
\* d whose tool returned {"id": "X"}, the value "X" that its params_mapping
\* names as "$.d.id".
C18_DependentReceivesField ==
    \A t \in TaskIds :
        handler_starts[t] >= 1 =>
            \A d \in Node(t).depends_on :
                (/\ Node(t).params_mapping[d] = Path(<<d, "id">>)
                 /\ d \in DOMAIN results
                 /\ PyEq(results[d], Dict([id |-> Leaf("X")])))
                    => PyEq(received[t].items[d], Leaf("X"))

\* The outputs a handler of the level being executed can read in its context
ContextResults ==
    IF "results" \in DOMAIN Context.items THEN Context.items["results"].items
    ELSE EmptyMap

\* The tasks of the levels before the one being executed
EarlierTasks == Completed(SubSeq(levels, 1, level_idx - 1))

\* C19: while the tasks of level N run, in whatever order they start and
\* finish, the context they share holds outputs of tasks of the levels before
\* N only, each produced by a run of a level before N; no output produced in
\* level N is in it, and the first level sees no outputs at all.
C19_ContextHoldsEarlierLevelsOnly ==
    (dag_pc = "executing" /\ level_idx >= 1) =>
        /\ DOMAIN ContextResults = EarlierTasks
        /\ \A k \in DOMAIN ContextResults : produced_at[k] < level_idx
        /\ level_idx = 1 => DOMAIN ContextResults = {}

\* In a level after the first one task has finished while another task, which
\* does not depend on it, is still running
C19_Witness ==
    /\ dag_pc = "executing" /\ level_idx >= 2
    /\ \E t, u \in DOMAIN run_state :
          /\ run_state[t] = "done" /\ run_state[u] = "running"
          /\ t \notin DOMAIN ContextResults
          /\ t \in DOMAIN level_results

\* The handler of the task raises
Raises(t) == ~SkillToolOutcome(Node(t).tool, received[t]).ok

\* The error text run_task records for the task
ErrorResult(t) ==
    Dict([error |-> Leaf(SkillToolOutcome(Node(t).tool, received[t]).error)])

\* C20: a task whose handler raised is marked failed, and once its level is
\* over results holds {error: message} under its id; the other tasks of the
\* level still finish, every task of an acyclic graph, dependents of a failed
\* task included, has run when execute_all returns, and execute_all of an
\* acyclic graph always returns.
C20_FailureIsRecordedAndContained ==
    /\ [](~HasCycle =>
            /\ dag_pc # "raised"
            /\ \A t \in TaskIds :
                  /\ (handler_finishes[t] >= 1 /\ Raises(t)
                      /\ (t \notin DOMAIN run_state \/ run_state[t] = "done")) =>
                        tasks[t].status = "failed"
                  /\ (t \in DOMAIN results /\ Raises(t)) =>
                        PyEq(results[t], ErrorResult(t))
                  /\ dag_pc = "returned" =>
                        /\ t \in DOMAIN results
                        /\ handler_finishes[t] >= 1
                        /\ Raises(t) <=> tasks[t].status = "failed"
                        /\ ~Raises(t) <=> tasks[t].status = "completed")
    /\ <>(~HasCycle => dag_pc = "returned")

\* execute_all returned although the task s1 failed, and the dependent s2 of
\* s1 ran to completion
C20_Witness ==
    /\ dag_pc = "returned" /\ Len(nodes) >= 2
    /\ tasks["s1"].status = "failed" /\ tasks["s2"].status = "completed"
    /\ "s1" \in Node("s2").depends_on
    /\ PyEq(results["s1"], ErrorResult("s1"))

\* ------------------------------------------ properties: output projection
\* The final context of the claim: input plus one key per node
FinalContext ==
    Dict([k \in {"input"} \cup TaskIds |->
            IF k = "input" THEN SkillInput ELSE results[k]])

Running == {t \in DOMAIN run_state : run_state[t] = "running"}

\* execute_all on an executor with a limit below the level width
ConcurrencySpec == ConcurrencyInit /\ [][DagNext]_vars

\* C22: the handlers running at the same time are never more than the
\* executor's max_concurrency, and the permits taken are exactly those of
\* the running handlers.
C22_RunningWithinMaxConcurrency ==
    /\ Cardinality(Running) <= executor.max_concurrency
    /\ executor.semaphore = executor.max_concurrency - Cardinality(Running)

\* Every permit is taken while a task of the same level is still waiting
C22_Witness ==
    /\ Cardinality(Running) = executor.max_concurrency
    /\ \E t \in DOMAIN run_state : run_state[t] = "waiting"

\* ------------------------------------------------- permission checks
\* The chat endpoint and the skill run are not involved
AppIdle == ChatIdle /\ DagIdle

\* Users the checks are evaluated for: the anonymous caller and every
\* combination of id, superuser flag, department, roles and is_active
PermUsers ==
    {AnonymousUser} \cup
    [id : {"u_admin", "u_viewer"}, is_superuser : BOOLEAN,
     department : {None, "", "risk"}, roles : SUBSET {"admin", "viewer"},
     is_active : BOOLEAN]

\* Tool or Skill rows: the access fields and the status
PermObjects ==
    [visibility : {"public", "private", "internal", "department"},
     created_by : {"u_admin", "u_viewer"},
     allowed_departments : SUBSET {"", "risk"},
     allowed_roles : SUBSET {"admin"},
     status : {"active", "deprecated"}]

PermInit ==
    /\ AppIdle /\ ExecIdle /\ CaptureIdle /\ GatewayIdle /\ ValidateIdle /\ SseIdle /\ AgentIdle /\ MemoryIdle
    /\ perm_user \in PermUsers
    /\ perm_obj \in PermObjects
    /\ tool_granted = <<>>
    /\ skill_granted = <<>>

\* What no step of a component checked on its own changes
app_vars == <<turn_vars, dag_vars>>
\* What no permission check changes
perm_rest == <<app_vars, exec_vars, capture_vars, gateway_vars, validate_vars, sse_vars, agent_vars, memory_vars>>

CheckToolPermission ==
    /\ tool_granted = <<>>
    /\ tool_granted' = <<check_tool_permission(perm_user, perm_obj)>>
    /\ UNCHANGED <<perm_user, perm_obj, skill_granted, perm_rest>>

CheckSkillPermission ==
    /\ skill_granted = <<>>
    /\ skill_granted' = <<check_skill_permission(perm_user, perm_obj)>>
    /\ UNCHANGED <<perm_user, perm_obj, tool_granted, perm_rest>>

PermNext == CheckToolPermission \/ CheckSkillPermission

PermSpec == PermInit /\ [][PermNext]_vars

\* The rules of the claim, first match
MayAsClaimed(user, obj) ==
    IF obj.visibility = "public" THEN TRUE
    ELSE IF user = AnonymousUser THEN FALSE
    ELSE IF user.is_superuser THEN TRUE
    ELSE IF obj.visibility = "private" THEN obj.created_by = user.id
    ELSE IF obj.visibility = "internal"
         THEN \/ user.department \in obj.allowed_departments
              \/ (user.roles \cap obj.allowed_roles) # {}
    ELSE FALSE

\* The same rules with the department rule restricted to users that have a
\* department (neither None nor the empty string)
MayAmended(user, obj) ==
    IF obj.visibility = "public" THEN TRUE
    ELSE IF user = AnonymousUser THEN FALSE
    ELSE IF user.is_superuser THEN TRUE
    ELSE IF obj.visibility = "private" THEN obj.created_by = user.id
    ELSE IF obj.visibility = "internal"
         THEN \/ /\ user.department \notin {None, ""}
                 /\ user.department \in obj.allowed_departments
              \/ (user.roles \cap obj.allowed_roles) # {}
    ELSE FALSE

\* C23 as claimed: each check returns the result of the first matching rule
\* (public, anonymous, superuser, private creator, internal department or
\* role, else deny), and the two checks agree.
C23_FirstMatchingRule ==
    /\ tool_granted # <<>> =>
          tool_granted[1] = MayAsClaimed(perm_user, perm_obj)
    /\ skill_granted # <<>> =>
          skill_granted[1] = MayAsClaimed(perm_user, perm_obj)
    /\ (tool_granted # <<>> /\ skill_granted # <<>>) =>
          tool_granted = skill_granted

\* C23 as amended: the same, where the department rule holds only for a
\* user whose department is set and not empty.
C23_FirstMatchingRuleAmended ==
    /\ tool_granted # <<>> =>
          tool_granted[1] = MayAmended(perm_user, perm_obj)
    /\ skill_granted # <<>> =>
          skill_granted[1] = MayAmended(perm_user, perm_obj)
    /\ (tool_granted # <<>> /\ skill_granted # <<>>) =>
          tool_granted = skill_granted

\* Both checks granted an internal object to a user who is neither its
\* creator nor a superuser, through the department rule alone
C23_Witness ==
    /\ tool_granted = <<TRUE>> /\ skill_granted = <<TRUE>>
    /\ perm_obj.visibility = "internal" /\ ~perm_user.is_superuser
    /\ perm_user.department = "risk"
    /\ (perm_user.roles \cap perm_obj.allowed_roles) = {}

\* Two users agree on is_superuser, department and roles
SameListedUser(u, v) ==
    /\ u.is_superuser = v.is_superuser
    /\ u.department = v.department
    /\ u.roles = v.roles

\* Two rows agree on visibility, created_by, allowed_departments and
\* allowed_roles
SameListedObject(o, q) ==
    /\ o.visibility = q.visibility
    /\ o.created_by = q.created_by
    /\ o.allowed_departments = q.allowed_departments
    /\ o.allowed_roles = q.allowed_roles

\* Users that are not the anonymous caller
KnownUsers == PermUsers \ {AnonymousUser}

\* An evaluation writes its result and nothing else
PermissionCheckWritesResultOnly ==
    [][/\ tool_granted' # tool_granted =>
            UNCHANGED <<perm_user, perm_obj, skill_granted, perm_rest>>
       /\ skill_granted' # skill_granted =>
            UNCHANGED <<perm_user, perm_obj, tool_granted, perm_rest>>]_vars

\* C24 as claimed: the decision for a known user depends only on
\* is_superuser, department and roles of the user and on visibility,
\* created_by, allowed_departments and allowed_roles of the tool: every
\* user and every tool that agree with the evaluated ones on these get the
\* decision that was returned; the evaluation changes no other state.
C24_DecisionOfListedAttributes ==
    /\ [](tool_granted # <<>> /\ perm_user \in KnownUsers =>
            /\ \A u \in KnownUsers :
                  SameListedUser(u, perm_user) =>
                      check_tool_permission(u, perm_obj) = tool_granted[1]
            /\ \A o \in PermObjects :
                  SameListedObject(o, perm_obj) =>
                      check_tool_permission(perm_user, o) = tool_granted[1])
    /\ PermissionCheckWritesResultOnly

\* C24 as amended: the same with user.id among the attributes.
C24_DecisionOfListedAttributesAndId ==
    /\ [](tool_granted # <<>> /\ perm_user \in KnownUsers =>
            /\ \A u \in KnownUsers :
                  (u.id = perm_user.id /\ SameListedUser(u, perm_user)) =>
                      check_tool_permission(u, perm_obj) = tool_granted[1]
            /\ \A o \in PermObjects :
                  SameListedObject(o, perm_obj) =>
                      check_tool_permission(perm_user, o) = tool_granted[1])
    /\ PermissionCheckWritesResultOnly

\* A private tool was granted to its creator, whose account is not active,
\* and the row is deprecated
C24_Witness ==
    /\ tool_granted = <<TRUE>> /\ perm_user \in KnownUsers
    /\ perm_obj.visibility = "private" /\ ~perm_user.is_superuser
    /\ ~perm_user.is_active /\ perm_obj.status = "deprecated"

\* ------------------------------------ ToolExecutor.execute with statistics
\* Floats are kept as fractions in lowest terms
RECURSIVE GCD(_, _)
GCD(a, b) == IF b = 0 THEN a ELSE GCD(b, a % b)

Frac(n, d) == [num |-> n \div GCD(n, d), den |-> d \div GCD(n, d)]

\* (x * count + value) / (count + 1) for a fraction x
RunningAverage(x, count, value) ==
    Frac(x.num * count + value * x.den, x.den * (count + 1))

\* The defaults of the statistics columns of a Tool row
NewStatistics ==
    [call_count |-> 0, avg_latency_ms |-> Frac(0, 1), success_rate |-> Frac(1, 1)]

\* What _update_statistics assigns to the Tool object
update_statistics(tool, latency_ms, success) ==
    LET old_count == tool.call_count
        new_count == old_count + 1
    IN [call_count |-> new_count,
        avg_latency_ms |->
            IF old_count > 0
            THEN RunningAverage(tool.avg_latency_ms, old_count, latency_ms)
            ELSE Frac(latency_ms, 1),
        success_rate |->
            IF old_count > 0
            THEN RunningAverage(tool.success_rate, old_count,
                                IF success THEN 1 ELSE 0)
            ELSE Frac(IF success THEN 1 ELSE 0, 1)]

\* Concurrent turns, each with the database session of its request
Turns == {"t1", "t2"}

\* Names execute is called with: a built-in that the catalog also holds, a
\* catalog tool behind an HTTP adapter, a deprecated row, an unknown name
ExecNames == {"calculator", "priv_tool", "old_tool", "missing"}

\* (time.time() - start_time) * 1000 as _update_statistics measures it
Latencies == {1, 3}

\* How a call of execute ended.  kind: "returned", "ToolExecutionError" or
\* "raised" (any other exception); handler: whether the built-in handler or
\* the adapter returned; statistics: whether the first statistics update of
\* the call was committed
Outcome(kind, tool_name, message, source, handler, statistics) ==
    [kind |-> kind, tool_name |-> tool_name, message |-> message,
     source |-> source, handler |-> handler, statistics |-> statistics]

\* No call of execute has returned or raised yet in the turn
NoOutcome == Outcome("none", None, None, "none", "none", "none")

\* A turn before its first call: session holds the rows the turn's session
\* has loaded and not expired
NewTurn ==
    [pc |-> "ready", calls |-> 0, tool_name |-> None, session |-> EmptyMap,
     outcome |-> NoOutcome]

\* Rows with statistics: the active rows of the catalog
ActiveRows == {n \in DOMAIN Catalog : Catalog[n].status = "active"}

\* Executors of two requests, before their first call
ExecBuilt ==
    /\ AppIdle /\ PermIdle /\ CaptureIdle /\ GatewayIdle /\ ValidateIdle /\ SseIdle /\ AgentIdle /\ MemoryIdle
    /\ builtin_tools \in SUBSET {"calculator"}
    /\ db_stats = [n \in ActiveRows |-> NewStatistics]
    /\ observed = [n \in ActiveRows |->
                     [count |-> 0, latency_sum |-> 0, successes |-> 0]]
    /\ exec_turn = [t \in Turns |-> NewTurn]

\* Every commit succeeds
ExecInit == ExecBuilt /\ db_healthy = TRUE

\* session.commit() may raise
FaultyExecInit == ExecBuilt /\ db_healthy = FALSE

\* What no step of ToolExecutor.execute changes
exec_rest == <<app_vars, perm_vars, capture_vars, gateway_vars, validate_vars, sse_vars, agent_vars, memory_vars>>

\* Whether session.commit() returns
CommitOutcomes == IF db_healthy THEN {TRUE} ELSE BOOLEAN

\* Whether the dispatch of a catalog tool returns: the adapters may raise,
\* _execute_generic never does
DispatchOutcomes(tool) ==
    IF tool.tool_type \in {"ml_model", "data_api", "external_api"}
    THEN BOOLEAN ELSE {TRUE}

\* ToolExecutor._get_tool on the session of a turn: the row as the session
\* holds it, loaded from the database when the session has no unexpired copy
get_tool(session, name) ==
    IF name \in DOMAIN session THEN session[name] ELSE db_stats[name]

\* execute up to its first await that can be interleaved: a built-in handler
\* is called and the call ends; a name without an active row ends the call
\* with "Tool not found"; otherwise the row is loaded and the adapter awaited
ExecuteStart(t, name) ==
    /\ exec_turn[t].pc = "ready" /\ exec_turn[t].calls < MaxExecCalls
    /\ IF name \in builtin_tools
       THEN \E handler_ok \in BOOLEAN :
              exec_turn' = [exec_turn EXCEPT
                  ![t].calls = @ + 1, ![t].tool_name = name,
                  ![t].outcome =
                      IF handler_ok
                      THEN Outcome("returned", name, "builtin", "builtin",
                                   "returned", "none")
                      ELSE Outcome("ToolExecutionError", name, "boom",
                                   "builtin", "raised", "none")]
       ELSE IF name \notin ActiveRows
       THEN exec_turn' = [exec_turn EXCEPT
                  ![t].calls = @ + 1, ![t].tool_name = name,
                  ![t].outcome = Outcome("ToolExecutionError", name,
                                         "Tool not found", "none", "none",
                                         "none")]
       ELSE exec_turn' = [exec_turn EXCEPT
                  ![t].calls = @ + 1, ![t].tool_name = name,
                  ![t].pc = "dispatching",
                  ![t].session = Merge(@, [n \in {name} |->
                                             get_tool(@, name)])]
    /\ UNCHANGED <<db_healthy, builtin_tools, db_stats, observed, exec_rest>>

\* The adapter returns or raises and execute runs to its end: the
\* statistics update of the try block or of the except block, the commit,
\* and after a failed commit in the try block the update of the except
\* block with its own commit
ExecuteFinish(t) ==
    /\ exec_turn[t].pc = "dispatching"
    /\ \E name \in {exec_turn[t].tool_name} :
       \E handler_ok \in DispatchOutcomes(Catalog[name]),
          latency_ms \in Latencies,
          commit_ok \in CommitOutcomes, retry_ok \in CommitOutcomes :
          \E first \in {update_statistics(exec_turn[t].session[name],
                                          latency_ms, handler_ok)} :
          \E second \in {update_statistics(first, latency_ms, FALSE)} :
            /\ observed' = [observed EXCEPT
                   ![name].count = @ + 1,
                   ![name].latency_sum = @ + latency_ms,
                   ![name].successes = @ + (IF handler_ok THEN 1 ELSE 0)]
            /\ IF commit_ok
               THEN /\ db_stats' = [db_stats EXCEPT ![name] = first]
                    /\ exec_turn' = [exec_turn EXCEPT
                          ![t].pc = "ready",
                          ![t].session = [n \in DOMAIN @ \ {name} |-> @[n]],
                          ![t].outcome =
                              IF handler_ok
                              THEN Outcome("returned", name, "result",
                                           "catalog", "returned", "committed")
                              ELSE Outcome("ToolExecutionError", name, "boom",
                                           "catalog", "raised", "committed")]
               ELSE IF handler_ok /\ retry_ok
               THEN /\ db_stats' = [db_stats EXCEPT ![name] = second]
                    /\ exec_turn' = [exec_turn EXCEPT
                          ![t].pc = "ready",
                          ![t].session = [n \in DOMAIN @ \ {name} |-> @[n]],
                          ![t].outcome =
                              Outcome("ToolExecutionError", name,
                                      "commit failed", "catalog", "returned",
                                      "failed")]
               ELSE /\ db_stats' = db_stats
                    /\ exec_turn' = [exec_turn EXCEPT
                          ![t].pc = "ready",
                          ![t].session[name] =
                              IF handler_ok THEN second ELSE first,
                          ![t].outcome =
                              Outcome("raised", name, "commit failed",
                                      "catalog",
                                      IF handler_ok THEN "returned"
                                      ELSE "raised",
                                      "failed")]
    /\ UNCHANGED <<db_healthy, builtin_tools, exec_rest>>

ExecNext ==
    \/ \E t \in Turns, name \in ExecNames : ExecuteStart(t, name)
    \/ \E t \in Turns : ExecuteFinish(t)

\* Two turns calling execute while every commit succeeds
ExecSpec == ExecInit /\ [][ExecNext]_vars

\* The same while commits may raise
FaultyExecSpec == FaultyExecInit /\ [][ExecNext]_vars

\* ------------------------------------------ properties: ToolExecutor.execute
\* Turns whose latest call of execute has ended
Ended == {t \in Turns : exec_turn[t].pc = "ready" /\ exec_turn[t].calls > 0}

\* The step in which the call of turn t ends after its dispatch
FinishStep(t) == exec_turn[t].pc = "dispatching" /\ exec_turn'[t].pc = "ready"

\* C25: a name in the built-in map is served by its handler even when the
\* catalog holds an active row of that name; any other name without an
\* active row ends in ToolExecutionError "Tool not found"; and whenever the
\* built-in handler or the dispatch of the catalog tool raised, the caller
\* gets a ToolExecutionError that names the tool.
C25_BuiltinFirstAndFailuresWrapped ==
    \A t \in Ended :
        LET o == exec_turn[t].outcome
        IN /\ o.tool_name \in builtin_tools => o.source = "builtin"
           /\ (o.tool_name \notin builtin_tools /\ o.tool_name \notin ActiveRows)
                 => (o.kind = "ToolExecutionError" /\ o.message = "Tool not found")
           /\ o.handler = "raised"
                 => (o.kind = "ToolExecutionError"
                     /\ o.tool_name = exec_turn[t].tool_name)

\* C26: once no call is under way, call_count of a row is the number of
\* dispatch outcomes of its tool, and when all of them were successes
\* avg_latency_ms is the mean of their latencies; every dispatch outcome
\* raises the committed call_count by one and turns the committed
\* success_rate r into (r * n + s) / (n + 1), s being 1 for a success.
C26_StatisticsAreRunningMeans ==
    /\ [](Ended = Turns =>
            \A n \in ActiveRows :
                /\ db_stats[n].call_count = observed[n].count
                /\ (observed[n].count > 0
                    /\ observed[n].successes = observed[n].count) =>
                       db_stats[n].avg_latency_ms =
                           Frac(observed[n].latency_sum, observed[n].count))
    /\ [][\A n \in ActiveRows :
            observed'[n].count = observed[n].count + 1 =>
                /\ db_stats'[n].call_count = db_stats[n].call_count + 1
                /\ db_stats'[n].success_rate =
                       RunningAverage(db_stats[n].success_rate,
                                      db_stats[n].call_count,
                                      observed'[n].successes
                                          - observed[n].successes)]_vars

\* C27: when the handler returned and the statistics update failed, execute
\* returns the result, and the step commits nothing to the row (the call is
\* not counted as a failure).
C27_StatisticsFailureIsSwallowed ==
    [][\A t \in Turns :
          (FinishStep(t) /\ exec_turn'[t].outcome.handler = "returned"
                         /\ exec_turn'[t].outcome.statistics = "failed") =>
              /\ exec_turn'[t].outcome.kind = "returned"
              /\ db_stats' = db_stats]_vars

\* C28: when each of the two turns has executed the same catalog tool once
\* and both calls have ended, neither ended in an exception other than the
\* one its adapter raised, and call_count of the row is 2.
C28_ConcurrentTurnsBothCounted ==
    \A n \in ActiveRows :
        (/\ Ended = Turns
         /\ \A t \in Turns :
               /\ exec_turn[t].calls = 1
               /\ exec_turn[t].tool_name = n
               /\ exec_turn[t].outcome.source = "catalog") =>
            /\ \A t \in Turns :
                  exec_turn[t].outcome.kind =
                      (IF exec_turn[t].outcome.handler = "returned"
                       THEN "returned" ELSE "ToolExecutionError")
            /\ db_stats[n].call_count = 2

\* ------------------------------------- stream capture of OpenAIAdapter.chat
\* Chunks a provider stream is made of: a content delta, a reasoning delta,
\* the first fragment of call 0, a later fragment of call 0, the only
\* fragment of call 1, two finish chunks and the chunk of the [DONE] line.
CaptureChunks ==
    {StreamChunk("a", None, <<>>, None),
     StreamChunk(None, "r", <<>>, None),
     StreamChunk(None, None, <<ToolCallDelta(0, "call-1", "f", "{")>>, None),
     StreamChunk(None, None, <<ToolCallDelta(0, None, None, "}")>>, None),
     StreamChunk(None, None, <<ToolCallDelta(1, "call-2", "g", "{}")>>, None),
     StreamChunk(None, None, <<>>, "tool_calls"),
     StreamChunk(None, None, <<>>, "stop"),
     StreamChunk(None, None, <<>>, None)}

\* The tool-call deltas of the chunks, in arrival order
DeltasOf(chunks) == Flatten([i \in 1..Len(chunks) |-> chunks[i].tool_call_chunk])

\* A provider names a call (id, name) in the first fragment of its index and
\* sends the later fragments without id
ProviderOrder(chunks) ==
    LET deltas == DeltasOf(chunks) IN
    \A i \in 1..Len(deltas) :
        (deltas[i].id = None) <=> (\E j \in 1..(i - 1) : deltas[j].index = deltas[i].index)

CaptureStreams ==
    {chunks \in UNION {[1..n -> CaptureChunks] : n \in 0..MaxChunks} :
        ProviderOrder(chunks)}

\* chat() has been called with a stream context set; nothing is read yet
CaptureInit ==
    /\ AppIdle /\ PermIdle /\ ExecIdle /\ GatewayIdle /\ ValidateIdle /\ SseIdle /\ AgentIdle /\ MemoryIdle
    /\ cap_stream \in CaptureStreams
    /\ cap_yielded = <<>>
    /\ cap_received = <<>>
    /\ cap_pc = "streaming"
    /\ cap_response = <<>>

\* What no step of the stream capture changes
capture_rest == <<app_vars, perm_vars, exec_vars, gateway_vars, validate_vars, sse_vars, agent_vars, memory_vars>>

\* tool_calls_dict after the chunks read so far
tool_calls_dict == MergeDeltas(EmptyMap, DeltasOf(cap_yielded))

\* tool_calls_dict[idx] = tc stores the dict of the chunk itself and the later
\* merges write into it: delta j of chunk k is that dict when no earlier
\* delta carried its index
StoredInDict(k, j) ==
    LET idx == cap_yielded[k].tool_call_chunk[j].index IN
    /\ \A k0 \in 1..(k - 1) :
          \A j0 \in 1..Len(cap_yielded[k0].tool_call_chunk) :
              cap_yielded[k0].tool_call_chunk[j0].index # idx
    /\ \A j0 \in 1..(j - 1) : cap_yielded[k].tool_call_chunk[j0].index # idx

\* Queued chunk k as a reader of the queue finds it now
QueuedChunk(k) ==
    [cap_yielded[k] EXCEPT
       !.tool_call_chunk =
           [j \in 1..Len(@) |->
               IF StoredInDict(k, j) THEN tool_calls_dict[@[j].index] ELSE @[j]]]

\* One pass of "async for chunk in self.chat_stream(...)": the chunk is put
\* on the queue (unbounded: put does not suspend) and accumulated
CaptureChunk ==
    /\ cap_pc = "streaming"
    /\ cap_stream # <<>>
    /\ cap_yielded' = Append(cap_yielded, Head(cap_stream))
    /\ cap_stream' = Tail(cap_stream)
    /\ UNCHANGED <<cap_received, cap_pc, cap_response, capture_rest>>

\* The stream is exhausted: chat composes and returns the LLMResponse
CaptureReturn ==
    /\ cap_pc = "streaming"
    /\ cap_stream = <<>>
    /\ cap_response' = <<OpenAIAdapter_chat(cap_yielded)>>
    /\ cap_pc' = "returned"
    /\ UNCHANGED <<cap_stream, cap_yielded, cap_received, capture_rest>>

\* chat_stream raises (raise_for_status, a transport error): so does chat
CaptureRaises ==
    /\ cap_pc = "streaming"
    /\ cap_stream # <<>>
    /\ cap_pc' = "raised"
    /\ UNCHANGED <<cap_stream, cap_yielded, cap_received, cap_response, capture_rest>>

\* The reader of the queue runs whenever chat awaits the next line of the
\* provider: queue.get() hands it the oldest chunk
QueueGet ==
    /\ Len(cap_received) < Len(cap_yielded)
    /\ cap_received' = Append(cap_received, QueuedChunk(Len(cap_received) + 1))
    /\ UNCHANGED <<cap_stream, cap_yielded, cap_pc, cap_response, capture_rest>>

CaptureNext == CaptureChunk \/ CaptureReturn \/ CaptureRaises \/ QueueGet

CaptureSpec == CaptureInit /\ [][CaptureNext]_vars

\* -------------------------------------------- stream capture: properties
\* The chunks the queue has been given so far, as its reader finds them:
\* those it has taken and those still queued
Forwarded ==
    cap_received
    \o [i \in 1..(Len(cap_yielded) - Len(cap_received)) |->
          QueuedChunk(Len(cap_received) + i)]

\* An absent text is the empty text
TextOf(x) == IF x = None THEN "" ELSE x

\* The concatenation of one field of the records, in order
RECURSIVE JoinField(_, _)
JoinField(records, field) ==
    IF records = <<>> THEN ""
    ELSE TextOf(Head(records)[field]) \o JoinField(Tail(records), field)

\* The finish reason of the last chunk that carries one
LastFinishSeen(chunks) ==
    LET carrying == {i \in 1..Len(chunks) : chunks[i].finish_reason # None} IN
    IF carrying = {} THEN None
    ELSE chunks[CHOOSE i \in carrying : \A j \in carrying : j <= i].finish_reason

ChatReturned == cap_pc = "returned" /\ cap_response # <<>>

\* C29: in stream-capture mode the queue is given exactly the chunks
\* chat_stream yielded, in the same order and all of them before chat
\* returns, and the composed response's content, reasoning and finish reason
\* are the concatenation of the content deltas, the concatenation of the
\* reasoning deltas and the last finish reason seen.
C29_QueueHoldsYieldedChunks ==
    /\ Forwarded = cap_yielded
    /\ ChatReturned =>
         /\ cap_stream = <<>>
         /\ TextOf(cap_response[1].content) = JoinField(cap_yielded, "content")
         /\ TextOf(cap_response[1].reasoning_content)
              = JoinField(cap_yielded, "reasoning_content")
         /\ cap_response[1].finish_reason = LastFinishSeen(cap_yielded)

\* The call the fragments of one index add up to: id of the first fragment,
\* name and arguments concatenated in arrival order, the arguments parsed
\* when they are JSON and kept under "_raw_args" otherwise
AccumulatedCall(deltas, idx) ==
    LET own == SelectSeq(deltas, LAMBDA d : d.index = idx)
        accumulated == JoinField(own, "arguments")
    IN [id |-> own[1].id,
        name |-> JoinField(own, "name"),
        arguments |-> IF accumulated \in ValidJson
                      THEN [kind |-> "object", text |-> accumulated]
                      ELSE [kind |-> "_raw_args", text |-> accumulated]]

\* C30: for every tool-call index streamed in one turn the fragments are
\* accumulated into one call (id of the first chunk, name and arguments
\* concatenated in arrival order), and the final ToolCall.arguments is the
\* parsed object iff the accumulated string parses as JSON and
\* {"_raw_args": <accumulated string>} otherwise.
C30_OneCallPerIndexParsedOrRawArgs ==
    ChatReturned =>
        LET deltas == DeltasOf(cap_yielded)
            calls == cap_response[1].tool_calls
            indexes == {deltas[i].index : i \in 1..Len(deltas)}
        IN /\ Len(calls) = Cardinality(indexes)
           /\ \A idx \in indexes :
                \E i \in 1..Len(calls) : calls[i] = AccumulatedCall(deltas, idx)

\* ------------------------------------------------------------ LLM gateway
\* ModelProvider rows: id, provider_type, is_enabled, api_key, owner_id
ProviderRow(id, provider_type, is_enabled, api_key, owner_id) ==
    [id |-> id, provider_type |-> provider_type, is_enabled |-> is_enabled,
     api_key |-> api_key, owner_id |-> owner_id]

ProviderKinds == {"openai", "anthropic"}
GatewayUsers == {"u1", "u2"}

\* Strings uuid.UUID() accepts; "id-9" is the id of no row
ProviderIds == {"id-1", "id-2", "id-9"}

\* Two rows; the second always has an API key
ProviderTables ==
    {[i \in {"id-1", "id-2"} |->
        ProviderRow(i, IF i = "id-1" THEN k1 ELSE k2,
                    IF i = "id-1" THEN e1 ELSE e2,
                    IF i = "id-1" THEN key ELSE "key",
                    IF i = "id-1" THEN o1 ELSE o2)] :
       k1 \in ProviderKinds, k2 \in ProviderKinds, e1 \in BOOLEAN, e2 \in BOOLEAN,
       key \in {"", "key"}, o1 \in GatewayUsers, o2 \in GatewayUsers}

\* Model names, as the parts the patterns of infer_provider are matched on
ModelNames == {<<"gpt", "-4o">>, <<"claude", "-3">>, <<"llama">>}

\* LLMGateway.infer_provider: the first pattern, in the order of the table,
\* that occurs in the model name; openai by default
InferPatterns ==
    <<<<"gpt", "openai">>, <<"o1", "openai">>, <<"claude", "anthropic">>,
      <<"gemini", "gemini">>, <<"qwen", "qwen">>, <<"deepseek", "deepseek">>,
      <<"glm", "zhipu">>, <<"moonshot", "moonshot">>, <<"ernie", "baidu">>>>

infer_provider(model) ==
    LET hits == {i \in 1..Len(InferPatterns) :
                    \E j \in 1..Len(model) : model[j] = InferPatterns[i][1]}
    IN IF hits = {} THEN "openai"
       ELSE InferPatterns[CHOOSE i \in hits : \A j \in hits : i <= j][2]

\* LLMGateway(session, user_id) of one turn, before its first call
GatewayInit ==
    /\ AppIdle /\ PermIdle /\ ExecIdle /\ CaptureIdle /\ ValidateIdle /\ SseIdle /\ AgentIdle /\ MemoryIdle
    /\ gw_db \in ProviderTables
    /\ gw_turn \in [user_id : {None, "u1"}, provider_id : {None, "id-1", "id-9"},
                    model : ModelNames]
    /\ gw_adapters = EmptyMap
    /\ gw_calls = <<>>

\* What no gateway call changes
gateway_rest == <<app_vars, perm_vars, exec_vars, capture_vars, validate_vars, sse_vars, agent_vars, memory_vars>>

\* LLMGateway._get_provider: the rows .first() may return (None: no row).
\* A string that parses as a UUID is looked up by id among the enabled rows
\* first; the lookup by provider_type filters by the owner when the gateway
\* has a user id.
get_provider(identifier) ==
    LET by_id == {r \in DOMAIN gw_db :
                     /\ identifier \in ProviderIds
                     /\ gw_db[r].id = identifier
                     /\ gw_db[r].is_enabled}
        by_type == {r \in DOMAIN gw_db :
                       /\ gw_db[r].provider_type = identifier
                       /\ gw_db[r].is_enabled
                       /\ (gw_turn.user_id # None
                             => gw_db[r].owner_id = gw_turn.user_id)}
    IN IF by_id # {} THEN by_id
       ELSE IF by_type # {} THEN by_type
       ELSE {None}

\* LLMGateway.get_adapter: the row an adapter is built from (None: no adapter)
get_adapter(identifier) ==
    IF identifier \in DOMAIN gw_adapters THEN {gw_adapters[identifier]}
    ELSE {IF r = None \/ ~Truthy(gw_db[r].api_key) THEN None ELSE r :
            r \in get_provider(identifier)}

\* provider_id or provider_type or self.infer_provider(config.model)
chat_identifier(provider_type, provider_id, model) ==
    IF Truthy(provider_id) THEN provider_id
    ELSE IF Truthy(provider_type) THEN provider_type
    ELSE infer_provider(model)

\* provider_type or self.infer_provider(config.model)
chat_stream_identifier(provider_type, model) ==
    IF Truthy(provider_type) THEN provider_type ELSE infer_provider(model)

\* One call through the gateway: the adapter is looked up (and kept in
\* _adapters), the call raises ValueError when there is none.  explicit_id is
\* the provider id the caller was configured with.
GatewayCall(by, method, explicit_id, provider_type, provider_id, model, identifier) ==
    /\ Len(gw_calls) < MaxGatewayCalls
    /\ \E adapter \in get_adapter(identifier) :
         /\ gw_adapters' =
              IF adapter = None THEN gw_adapters
              ELSE [i \in DOMAIN gw_adapters \cup {identifier} |->
                      IF i = identifier THEN adapter ELSE gw_adapters[i]]
         /\ gw_calls' = Append(gw_calls,
              [caller |-> by, method |-> method, explicit_id |-> explicit_id,
               provider_type |-> provider_type, provider_id |-> provider_id,
               model |-> model, identifier |-> identifier, adapter |-> adapter])
    /\ UNCHANGED <<gw_db, gw_turn, gateway_rest>>

\* LLMGateway.chat(messages, config, provider_type, provider_id)
GatewayChat ==
    \E provider_type \in {None, "anthropic"}, provider_id \in {None, "id-2"} :
        GatewayCall("api", "chat", provider_id, provider_type, provider_id,
                    gw_turn.model,
                    chat_identifier(provider_type, provider_id, gw_turn.model))

\* LLMGateway.chat_stream(messages, config, provider_type)
GatewayChatStream ==
    \E provider_type \in {None, "anthropic"} :
        GatewayCall("api", "chat_stream", None, provider_type, None, gw_turn.model,
                    chat_stream_identifier(provider_type, gw_turn.model))

\* LLMPlanner.plan, once per turn: chat_stream when a stream context is set,
\* chat otherwise; either way with the model alone
PlannerCall ==
    /\ \A i \in 1..Len(gw_calls) : gw_calls[i].caller # "planner"
    /\ \/ GatewayCall("planner", "chat_stream", gw_turn.provider_id, None, None,
                      gw_turn.model, chat_stream_identifier(None, gw_turn.model))
       \/ GatewayCall("planner", "chat", gw_turn.provider_id, None, None,
                      gw_turn.model, chat_identifier(None, None, gw_turn.model))

\* think_node: gateway.chat(messages, config, provider_id=state["provider_id"])
ThinkCall ==
    GatewayCall("think", "chat", gw_turn.provider_id, None, gw_turn.provider_id,
                gw_turn.model,
                chat_identifier(None, gw_turn.provider_id, gw_turn.model))

GatewayNext == GatewayChat \/ GatewayChatStream \/ PlannerCall \/ ThinkCall

GatewaySpec == GatewayInit /\ [][GatewayNext]_vars

\* The provider the priority of the spec selects for a call
FirstMatch(call) ==
    IF call.explicit_id # None THEN call.explicit_id
    ELSE IF call.provider_type # None THEN call.provider_type
    ELSE infer_provider(call.model)

\* C31: every gateway call, chat and chat_stream alike, selects its provider
\* by the priority explicit provider id, else explicit kind, else the kind
\* inferred from the model name; so the planner and think calls of a turn
\* made with an explicit provider id all use that provider.
C31_SameSelectionPriority ==
    \A i \in 1..Len(gw_calls) :
        /\ gw_calls[i].identifier = FirstMatch(gw_calls[i])
        /\ (gw_calls[i].caller \in {"planner", "think"} /\ gw_turn.provider_id # None)
             => gw_calls[i].identifier = gw_turn.provider_id

\* C32: the gateway returns no adapter for a row that is disabled or has an
\* empty API key, and a gateway bound to a user id selects no row owned by
\* another user, by provider id or by provider kind.
C32_OnlyValidOwnRows ==
    \A i \in 1..Len(gw_calls) :
        gw_calls[i].adapter # None =>
            LET row == gw_db[gw_calls[i].adapter] IN
            /\ row.is_enabled
            /\ row.api_key # ""
            /\ gw_turn.user_id # None => row.owner_id = gw_turn.user_id
\* ------------------------------------------------- validate_node on its own
\* Values a tool may return: dicts with or without the required fields and
\* with or without a sensitive string leaf, and a plain string
ToolValues ==
    {[isdict |-> TRUE, text |-> "d", json |-> "d", keys |-> k, sensitive |-> sens] :
        k \in {{"output", "agent"}, {"output"}, {"sum"}},
        sens \in {"none", "card", "email"}}
    \cup {[isdict |-> FALSE, text |-> "a@b.cn", json |-> "a@b.cn", keys |-> {},
           sensitive |-> "email"]}

\* The entries execute_tools_node may leave in tool_results
ToolResultEntries ==
    {ToolResultEntry([id |-> "call-1", name |-> "calculator"],
                     [ok |-> TRUE, value |-> v, error |-> None]) : v \in ToolValues}
    \cup {ToolResultEntry([id |-> "call-1", name |-> "calculator"],
                          [ok |-> FALSE, value |-> None, error |-> "boom"])}

ValidateInit ==
    /\ AppIdle /\ PermIdle /\ ExecIdle /\ CaptureIdle /\ GatewayIdle /\ SseIdle /\ AgentIdle /\ MemoryIdle
    /\ val_results \in UNION {[1..n -> ToolResultEntries] : n \in 0..MaxResults}
    /\ val_update = <<>>

validate_rest == <<app_vars, perm_vars, exec_vars, capture_vars, gateway_vars, sse_vars, agent_vars, memory_vars>>

\* validate_node(state)
ValidateResults ==
    /\ val_update = <<>>
    /\ val_update' = <<validate_node([tool_results |-> val_results])>>
    /\ UNCHANGED <<val_results, validate_rest>>

ValidateSpec == ValidateInit /\ [][ValidateResults]_vars

\* A successful result whose value is a dict
Structured(result) == result.success /\ result.result.isdict

to_sse_format(event) ==
    "event: " \o event[1].event \o "\ndata: " \o event[1].data \o "\n"

\* A queue item: <<SSEEvent>>, or <<>> for the None that close() puts
SSEEvent(event, data) == <<[event |-> event, data |-> data]>>

\* "if event is None" of __aiter__, as it would be if nothing ended the loop
is_sentinel_never(event) == FALSE

\* "if event is None: break" of SSEStreamHandler.__aiter__
is_sentinel(event) == event = <<>>

\* A fresh handler; a task is iterating it
SseInit ==
    /\ AppIdle /\ PermIdle /\ ExecIdle /\ CaptureIdle /\ GatewayIdle /\ ValidateIdle /\ AgentIdle /\ MemoryIdle
    /\ sse_queue = <<>>
    /\ sse_closed = FALSE
    /\ sse_log = <<>>
    /\ sse_yielded = <<>>
    /\ sse_pc = "iterating"

sse_rest == <<app_vars, perm_vars, exec_vars, capture_vars, gateway_vars,
              validate_vars, agent_vars, memory_vars>>

\* SSEStreamHandler.emit(event, data): dropped once the handler is closed
SseEmit ==
    /\ Len(sse_log) < MaxSseCalls
    /\ \E event \in {"message", "progress"} :
         /\ sse_queue' = IF sse_closed THEN sse_queue
                         ELSE Append(sse_queue, SSEEvent(event, "{}"))
         /\ sse_log' = Append(sse_log, [call |-> "emit", event |-> event])
    /\ UNCHANGED <<sse_closed, sse_yielded, sse_pc, sse_rest>>

\* SSEStreamHandler.close(): the flag is set and the sentinel is queued
SseClose ==
    /\ Len(sse_log) < MaxSseCalls
    /\ sse_closed' = TRUE
    /\ sse_queue' = Append(sse_queue, <<>>)
    /\ sse_log' = Append(sse_log, [call |-> "close", event |-> None])
    /\ UNCHANGED <<sse_yielded, sse_pc, sse_rest>>

\* SSEStreamHandler.emit_complete(result): emit("complete", ...) and close()
SseEmitComplete ==
    /\ Len(sse_log) < MaxSseCalls
    /\ sse_closed' = TRUE
    /\ sse_queue' = (IF sse_closed THEN sse_queue
                     ELSE Append(sse_queue, SSEEvent("complete", "{\"result\": {}}")))
                    \o << <<>> >>
    /\ sse_log' = Append(sse_log, [call |-> "emit_complete", event |-> "complete"])
    /\ UNCHANGED <<sse_yielded, sse_pc, sse_rest>>

\* One pass of the loop of __aiter__: get an event, stop at the sentinel,
\* yield the formatted event otherwise
SseIterate ==
    /\ sse_pc = "iterating"
    /\ sse_queue # <<>>
    /\ sse_queue' = Tail(sse_queue)
    /\ IF is_sentinel(Head(sse_queue))
       THEN sse_pc' = "stopped" /\ UNCHANGED sse_yielded
       ELSE /\ sse_yielded' = Append(sse_yielded,
                                     IF Head(sse_queue) = <<>> THEN None
                                     ELSE to_sse_format(Head(sse_queue)))
            /\ UNCHANGED sse_pc
    /\ UNCHANGED <<sse_closed, sse_log, sse_rest>>

SseNext == SseEmit \/ SseClose \/ SseEmitComplete \/ SseIterate

SseSpec == SseInit /\ [][SseNext]_vars

\* The event loop runs the iterating task whenever an item is queued
FairSseSpec == SseSpec /\ WF_vars(SseIterate)

\* The calls that close the handler
Closing(entry) == entry.call \in {"close", "emit_complete"}

\* What the calls up to and including the first closing one emitted
RECURSIVE EmittedBeforeClose(_)
EmittedBeforeClose(log) ==
    IF log = <<>> THEN <<>>
    ELSE IF Head(log).call = "close" THEN <<>>
    ELSE IF Head(log).call = "emit_complete"
    THEN <<to_sse_format(SSEEvent("complete", "{\"result\": {}}"))>>
    ELSE <<to_sse_format(SSEEvent(Head(log).event, "{}"))>>
         \o EmittedBeforeClose(Tail(log))

IsPrefix(s, t) == Len(s) <= Len(t) /\ s = SubSeq(t, 1, Len(s))

\* C34: under any sequence of emit / emit_complete / close calls, iterating
\* the handler yields exactly the events emitted before the first close, in
\* emission order, and then stops; an emit after close is never delivered
\* (and returns); emit_complete on an open handler delivers one "complete"
\* event, and leaves the handler closed in any case.
C34_YieldsEventsBeforeFirstClose ==
    /\ [](/\ IsPrefix(sse_yielded, EmittedBeforeClose(sse_log))
          /\ sse_closed <=> \E i \in 1..Len(sse_log) : Closing(sse_log[i])
          /\ sse_pc = "stopped"
               => sse_closed /\ sse_yielded = EmittedBeforeClose(sse_log))
    /\ [](sse_closed => <>(sse_pc = "stopped"))

\* The iteration has stopped after two events, the second from
\* emit_complete; a later emit and a second emit_complete changed nothing
C34_Witness ==
    /\ sse_pc = "stopped"
    /\ Len(sse_yielded) = 2
    /\ Len(sse_log) = 4
    /\ sse_log[1].call = "emit"
    /\ sse_log[2].call = "emit_complete"
    /\ sse_log[3].call = "emit"
    /\ sse_log[4].call = "emit_complete"

\* ------------------------------------------ plan -> execute -> validate graph
\* state.get(key, default): None stands for a missing key
Get(value, default) == IF value = None THEN default ELSE value

\* The same for an integer field: <<>> is a missing key, <<n>> the value n
GetInt(value, default) == IF value = <<>> THEN default ELSE value[1]

max_retries == 2

\* should_retry as it would be without the bound on retry_count
should_retry_unbounded(s) ==
    IF Get(s.validation_status, "passed") # "passed" THEN "retry" ELSE "end"

\* should_retry(state)
should_retry(s) ==
    IF Get(s.validation_status, "passed") # "passed"
       /\ GetInt(s.retry_count, 0) < max_retries
    THEN "retry" ELSE "end"

\* route_by_intent(state): every intent goes to execute
route_by_intent(s) == "execute"

\* increment_retry(state)
increment_retry(s) == [s EXCEPT !.retry_count = <<GetInt(@, 0) + 1>>]

\* The initial_state of run_agent / stream_agent; retry_count is missing when
\* the compiled graph is invoked with a state that leaves it out
AgentInit ==
    /\ AppIdle /\ PermIdle /\ ExecIdle /\ CaptureIdle /\ GatewayIdle /\ ValidateIdle /\ SseIdle /\ MemoryIdle
    /\ ag_state \in [input : {"Hello", "mail a@b.cn"}, session_id : {"default"},
                     retry_count : {<<>>, <<0>>}, intent : {None},
                     execution_result : {<<>>}, validated_output : {<<>>},
                     validation_status : {None}, validation_issues : {<<>>}]
    /\ ag_node = "plan"
    /\ ag_plans = 0

agent_rest == <<app_vars, perm_vars, exec_vars, capture_vars, gateway_vars,
                validate_vars, sse_vars, memory_vars>>

\* Planner.__call__: the state with the routing decision; then route_by_intent
AgentPlan ==
    /\ ag_node = "plan"
    /\ \E intent \in {"query", "conversation"} :
         ag_state' = [ag_state EXCEPT !.intent = intent]
    /\ ag_node' = route_by_intent(ag_state')
    /\ ag_plans' = ag_plans + 1
    /\ UNCHANGED agent_rest

\* Executor.__call__: the placeholder result {"agent", "params", "output",
\* "timestamp"}; params may carry a sensitive string taken from the input
AgentExecute ==
    /\ ag_node = "execute"
    /\ \E sens \in {"none", "card", "email"} :
         ag_state' = [ag_state EXCEPT
            !.execution_result =
                <<[isdict |-> TRUE, text |-> "r", json |-> "r",
                   keys |-> {"agent", "params", "output", "timestamp"},
                   sensitive |-> sens]>>]
    /\ ag_node' = "validate"
    /\ UNCHANGED <<ag_plans, agent_rest>>

\* Validator.__call__, then the conditional edge should_retry
AgentValidate ==
    /\ ag_node = "validate"
    /\ \E validated \in {Validator_validate(ag_state.execution_result[1])} :
         ag_state' = [ag_state EXCEPT
                        !.validated_output = <<validated.validated_output>>,
                        !.validation_status = validated.validation_status,
                        !.validation_issues = validated.validation_issues]
    /\ ag_node' = IF should_retry(ag_state') = "retry" THEN "retry" ELSE "END"
    /\ UNCHANGED <<ag_plans, agent_rest>>

\* The retry node, then the edge retry -> plan
AgentRetry ==
    /\ ag_node = "retry"
    /\ ag_state' = increment_retry(ag_state)
    /\ ag_node' = "plan"
    /\ UNCHANGED <<ag_plans, agent_rest>>

AgentNext == AgentPlan \/ AgentExecute \/ AgentValidate \/ AgentRetry

AgentSpec == AgentInit /\ [][AgentNext]_vars

\* LangGraph runs the next node of an invoked graph
FairAgentSpec == AgentSpec /\ WF_vars(AgentNext)

\* States should_retry may be handed
RetryStates ==
    [validation_status : {None, "passed", "failed", "warning"},
     retry_count : {<<>>, <<0>>, <<1>>, <<2>>, <<3>>}]

\* C35: should_retry returns "retry" iff validation_status is not "passed"
\* and retry_count < 2 (missing fields count as passed / 0); a retry
\* increments retry_count by exactly 1 and keeps the other fields; the cycle
\* is re-entered at most 2 times and every run reaches END.
C35_RetryAtMostTwiceThenEnd ==
    /\ [](\A s \in RetryStates :
            should_retry(s) = "retry"
              <=> /\ s.validation_status \notin {None, "passed"}
                  /\ (s.retry_count = <<>> \/ s.retry_count[1] < 2))
    /\ [][ag_node = "validate" =>
            ag_node' = (IF should_retry(ag_state') = "retry" THEN "retry" ELSE "END")]_vars
    /\ [][ag_node = "retry" =>
            /\ ag_state'.retry_count
                 = <<(IF ag_state.retry_count = <<>> THEN 0
                      ELSE ag_state.retry_count[1]) + 1>>
            /\ \A f \in DOMAIN ag_state \ {"retry_count"} : ag_state'[f] = ag_state[f]]_vars
    /\ [](ag_plans <= 3)
    /\ <>(ag_node = "END")

\* A run whose every pass failed validation ends after the third pass
C35_Witness ==
    /\ ag_node = "END"
    /\ ag_plans = 3
    /\ ag_state.retry_count = <<2>>
    /\ ag_state.validation_status = "failed"

\* ------------------------------------------ properties: the end of the loop
\* The tool messages after position j that carry the id of a call
AnswersAfter(j, id) ==
    {i \in (j + 1)..Len(state.messages) :
        state.messages[i].role = "tool" /\ state.messages[i].tool_call_id = id}

\* C36: when the loop has ended at respond, for a final answer or at the cap,
\* pending_tool_calls is empty and every tool call carried by an assistant
\* message is answered by exactly one later tool message with its id.
C36_EveryCallAnsweredAtEnd ==
    GraphEnded =>
        /\ state.pending_tool_calls = <<>>
        /\ \A j \in 1..Len(state.messages) :
              state.messages[j].role = "assistant" =>
                 \A k \in 1..Len(state.messages[j].tool_calls) :
                    Cardinality(AnswersAfter(j, state.messages[j].tool_calls[k].id)) = 1

\* The same for the runs that ended because the model gave a final answer
EveryCallAnsweredAfterFinalAnswer ==
    (GraphEnded /\ Last(AssistantMessages).tool_calls = <<>>) =>
        /\ state.pending_tool_calls = <<>>
        /\ \A j \in 1..Len(state.messages) :
              state.messages[j].role = "assistant" =>
                 \A k \in 1..Len(state.messages[j].tool_calls) :
                    Cardinality(AnswersAfter(j, state.messages[j].tool_calls[k].id)) = 1

\* ----------------------------------- properties: the request of a think turn
\* The positions of llm_request that hold the user's input as a user message
InputPositions ==
    {i \in 1..Len(llm_request) :
        llm_request[i].role = "user" /\ llm_request[i].content = state.input}

\* The request holds the input before every assistant and tool message
InputLeadsRequest ==
    \E i \in InputPositions :
        \A j \in 1..Len(llm_request) :
            llm_request[j].role \in {"assistant", "tool"} => i < j

\* C37: on every think turn, the first and the later ones that follow tool
\* results, the message list sent to the provider contains state.input as a
\* user message, before the assistant and tool messages of the run.
C37_RequestCarriesUserInput ==
    think_turns >= 1 => InputLeadsRequest

\* The same for the first think turn of a run
FirstRequestCarriesUserInput ==
    think_turns = 1 => InputLeadsRequest

\* -------------------------------------- properties: persisted thinking steps
IsStepFrame(f) == f.key = "event" /\ f.name \in {"thinking", "tool_call", "tool_result"}

\* The positions of the frames emitted for a step id
FramesOf(id) == {i \in 1..Len(frames) : IsStepFrame(frames[i]) /\ frames[i].data.id = id}

\* The frame emitted last for a step id
LastFrameOf(id) == frames[CHOOSE i \in FramesOf(id) : \A j \in FramesOf(id) : j <= i]

\* The status a frame shows for its step: a tool_call frame shows a call in
\* progress and a tool_result frame a completed or failed one
FrameStatus(f) ==
    IF f.name = "thinking" THEN f.data.status
    ELSE IF f.name = "tool_call" THEN "in-progress"
    ELSE IF f.data.success THEN "completed" ELSE "failed"

\* text is what a frame shows of its step, as the log records it: the
\* reasoning accumulated so far, the arguments of the call (none yet in the
\* frame that announces a streamed call) or the outcome of the tool
ShowsContent(f, text) ==
    IF f.name = "thinking"
    THEN text = (IF f.data.accumulated # None THEN f.data.accumulated
                 ELSE f.data.content)
    ELSE IF f.name = "tool_call"
    THEN \/ text = "args:" \o f.data.arguments.text
         \/ text = "" /\ f.data.arguments.text = "{}"
    ELSE text = (IF Truthy(f.data.error) THEN "failed: " \o f.data.error
                 ELSE "done: " \o f.data.result)

OneRecordPerStepId(log) ==
    \A i, j \in 1..Len(log) : log[i].id = log[j].id => i = j

StatusIsLastEmitted(log) ==
    \A i \in 1..Len(log) :
        FramesOf(log[i].id) # {} => log[i].status = FrameStatus(LastFrameOf(log[i].id))

NoneLeftInProgress(log) ==
    \A i \in 1..Len(log) :
        log[i].status = "in-progress" =>
            \A j \in FramesOf(log[i].id) : FrameStatus(frames[j]) = "in-progress"

ContentIsLastEmitted(log) ==
    \A i \in 1..Len(log) :
        FramesOf(log[i].id) # {} => ShowsContent(LastFrameOf(log[i].id), log[i].content)

\* C38: the thinking steps persisted with the assistant message hold at most
\* one record per step id, and each record's status and content are the last
\* ones emitted over SSE for its id, so that no record is left in progress
\* once a completed or failed frame or a tool_result was emitted for its id.
C38_PersistedStepsMatchStream ==
    \A n \in 1..Len(persisted) :
        /\ OneRecordPerStepId(persisted[n].thinking_steps)
        /\ StatusIsLastEmitted(persisted[n].thinking_steps)
        /\ ContentIsLastEmitted(persisted[n].thinking_steps)
        /\ NoneLeftInProgress(persisted[n].thinking_steps)

\* The parts of the statement, one by one
PersistedOneRecordPerStepId ==
    \A n \in 1..Len(persisted) : OneRecordPerStepId(persisted[n].thinking_steps)
PersistedStatusIsLastEmitted ==
    \A n \in 1..Len(persisted) : StatusIsLastEmitted(persisted[n].thinking_steps)
PersistedContentIsLastEmitted ==
    \A n \in 1..Len(persisted) : ContentIsLastEmitted(persisted[n].thinking_steps)
PersistedNoneLeftInProgress ==
    \A n \in 1..Len(persisted) : NoneLeftInProgress(persisted[n].thinking_steps)

\* ------------------------------------------- properties: the per-turn queue
SentinelPositions == {i \in 1..Len(queue) : queue[i].type = "sentinel"}

\* The items a step has put on the queue
Enqueued == SubSeq(queue', Len(queue) + 1, Len(queue'))

\* A step of run_graph: it puts items at the end of the queue and leaves the
\* generator alone
PutStep == IsPrefix(queue, queue') /\ UNCHANGED gen_vars

\* A step of the generator: it takes the item at the head of the queue
GetStep == queue # <<>> /\ queue' = Tail(queue) /\ IsPrefix(frames, frames')

\* C39: every item of a turn is put on the queue before the single sentinel;
\* the generator takes the items in the order they were put, and on a turn
\* without producer error it has taken all of them when it emits done; the
\* chunks of a think turn are put, and so taken, before that turn's event.
C39_QueueOrderAndSentinel ==
    /\ [](/\ Cardinality(SentinelPositions) <= 1
          /\ SentinelPositions \subseteq {Len(queue)}
          /\ (DoneCount >= 1 /\ graph_error = None) => queue = <<>>)
    /\ [][queue' # queue => (PutStep \/ GetStep)]_vars
    /\ [][run_pc = "finished" => queue' \in {queue, Tail(queue)}]_vars
    /\ [][(think_turns' = think_turns + 1 /\ run_pc' = "streaming") =>
             /\ Len(Enqueued) >= 1
             /\ Last(Enqueued).type = "graph_event" /\ Last(Enqueued).node = "think"
             /\ \A i \in 1..(Len(Enqueued) - 1) : Enqueued[i].type = "chunk"
             /\ (provider = "openai" => Len(Enqueued) >= 2)]_vars

\* A turn of two streamed completions was consumed to the end after run_graph
\* had finished with the whole turn still queued
C39_Witness ==
    /\ StreamClosed /\ graph_error = None /\ provider = "openai"
    /\ think_turns = 2 /\ DoneCount = 1 /\ queue = <<>> /\ run_pc = "finished"

\* ------------------------------------------------------ ConversationMemory
\* seq[start:] of Python for a start index that may be negative
SliceFrom(seq, start) ==
    LET n == Len(seq)
        first == IF start < 0 THEN (IF n + start < 0 THEN 0 ELSE n + start)
                 ELSE (IF start > n THEN n ELSE start)
    IN SubSeq(seq, first + 1, n)

IsSystem(m) == m.role = "system"
IsNotSystem(m) == m.role # "system"

\* ConversationMemory._trim_if_needed: the new value of self.messages
trim_if_needed(messages, max_messages) ==
    IF Len(messages) > max_messages
    THEN LET system_msgs == SelectSeq(messages, IsSystem)
             other_msgs == SelectSeq(messages, IsNotSystem)
             keep_count == max_messages - Len(system_msgs)
         IN system_msgs \o SliceFrom(other_msgs, 0 - keep_count)
    ELSE messages

MemoryRoles == {"system", "user", "assistant"}

\* ConversationMemory(max_messages=k): no message yet
MemoryInit ==
    /\ AppIdle /\ PermIdle /\ ExecIdle /\ CaptureIdle /\ GatewayIdle /\ ValidateIdle /\ SseIdle /\ AgentIdle
    /\ mem_messages = <<>>
    /\ mem_max_messages \in 1..MaxWindow
    /\ mem_added = <<>>

memory_rest == <<app_vars, perm_vars, exec_vars, capture_vars, gateway_vars,
                 validate_vars, sse_vars, agent_vars>>

\* add_message(role, content): append, then _trim_if_needed.  The content of
\* the n-th message is the text of n, which tells the messages apart.
AddMessage ==
    /\ Len(mem_added) < MaxAdds
    /\ \E role \in MemoryRoles :
         \E message \in {[role |-> role, content |-> ToString(Len(mem_added) + 1)]} :
            /\ mem_added' = Append(mem_added, message)
            /\ mem_messages' = trim_if_needed(Append(mem_messages, message),
                                              mem_max_messages)
    /\ UNCHANGED <<mem_max_messages, memory_rest>>

MemoryNext == AddMessage

MemorySpec == MemoryInit /\ [][MemoryNext]_vars

\* ------------------------------------------ properties: ConversationMemory
WithinMaxMessages == Len(mem_messages) <= mem_max_messages

SystemMessagesKept ==
    SelectSeq(mem_messages, IsSystem) = SelectSeq(mem_added, IsSystem)

RecentOthersInOrder ==
    LET kept == SelectSeq(mem_messages, IsNotSystem)
        added == SelectSeq(mem_added, IsNotSystem)
    IN /\ Len(kept) <= Len(added)
       /\ kept = SubSeq(added, Len(added) - Len(kept) + 1, Len(added))

\* C40: after any sequence of add_message calls the memory holds at most
\* max_messages messages, every system message that was added is still
\* there, and the other messages it holds are the most recently added ones
\* in their original order.
C40_WindowKeepsSystemAndRecent ==
    WithinMaxMessages /\ SystemMessagesKept /\ RecentOthersInOrder

\* The same with the bound stated for the memories whose system messages
\* leave room for another message
WithinMaxWhileRoomIsLeft ==
    /\ Len(SelectSeq(mem_added, IsSystem)) < mem_max_messages => WithinMaxMessages
    /\ SystemMessagesKept
    /\ RecentOthersInOrder
====
